---- MODULE Spec2Model ----
(***************************************************************************)
(* Parenta: session/quota reconciliation loop (internal/services/ticker.go)*)
(* and captive-portal credential submission (FASHandler.HandleAuth), over  *)
(* the in-memory record store (internal/storage/storage.go).               *)
(*                                                                         *)
(* Time is counted in slots of 60/SlotsPerMin seconds, so that a tick can  *)
(* see a fraction of a minute.  The store hands out pointers to its        *)
(* records (GetChild, GetSession, ListSessions), so a record is modelled   *)
(* once, by id, and a handler that holds a pointer reads the live record.  *)
(***************************************************************************)
EXTENDS Integers, Sequences, FiniteSets, TLC

\* ---------------------------------------------------------------- bounds
MaxTime == 5          \* the clock runs over slots 0..MaxTime
MinutesPerDay == 2    \* a calendar day, scaled down from 1440 minutes
MaxSessions == 2      \* session rows ever created
MaxUsed == 3          \* cap on used_today_min reached by admin adjustments
MaxQuota == 3         \* cap on daily_quota_min reached by extensions

SlotsPerMin == 2      \* a slot is 30 s, the default tick interval
MaxOverQuota == 480   \* adjustQuota: "Max 8 hours over quota"
DefaultQuota == 120   \* create: "Default 2 hours"

ChildSeq == <<"c1", "c2">>   \* the ids GenerateID hands out, in order
ChildIds == {ChildSeq[k] : k \in 1..Len(ChildSeq)}
MACs == {"m1", "m2"}
NoMAC == ""
Quotas == {1, 2}
Adjustments == {-1, 1}
NoSchedule == ""
NoTick == -1          \* the zero time.Time of Session.LastTickAt

AdminUser == "admin"  \* the administrator account's username
Users == ChildIds \cup {AdminUser, "nobody"}
Passwords == {"good", "bad"}   \* "good": CheckPassword succeeds
Faults == {"ndsctl", "children.json", "sessions.json"}
Hangs == {"ndsctl.hang"}   \* the ndsctl process never exits

DaySlots == MinutesPerDay * SlotsPerMin

VARIABLES
    now,          \* wall clock, in slots
    children,     \* Storage.children: child id -> record
    sessions,     \* Storage.sessions, in insertion order; the id is the index
    schedules,    \* Storage.schedules: schedule id -> record
    nds,          \* the last ndsctl call made for each MAC
    accrued,      \* per session: minutes ticks have added on its behalf
    tickPc,       \* SessionTicker: "idle" or "run" (inside tick())
    tickNow,      \* tick(): now := time.Now(); 0 outside tick()
    tickQueue,    \* tick(): the part of ListSessions() still to be visited
    req,          \* the HandleAuth request in flight
    resp,         \* the response HandleAuth wrote in the step just taken
    faults,       \* what fails at present: ndsctl, or the write of a file
    unsaved,      \* the files whose last saveFile returned an error
    adj,          \* the adjustQuota request in flight
    dev,          \* the addDevice request in flight
    disk,         \* the data directory: path -> the file found there
    io,           \* the saveFile call in progress, under Storage.mu
    stopChan,     \* SessionTicker.stopChan is closed
    doneChan,     \* SessionTicker.doneChan is closed
    stopPc,       \* SessionTicker.Stop: "idle", "wait" or "returned"
    arg,          \* the input of the function under evaluation
    ret           \* what the function has returned

diskVars == <<disk, io>>

loopVars == <<stopChan, doneChan, stopPc>>

\* the state of the operations that run in steps of their own
callVars == <<arg, ret>>

\* the requests of the administrator that run in steps of their own
adminVars == <<adj, dev>>

auxVars == <<adminVars, diskVars, loopVars, callVars>>

vars == <<now, children, sessions, schedules, nds, accrued,
          tickPc, tickNow, tickQueue, req, resp, faults, unsaved, auxVars>>

\* ---------------------------------------------------------------- store
\* Storage.saveFile, called after the in-memory collection was changed
saveFile(u, file) == IF file \in faults THEN u \cup {file} ELSE u \ {file}

\* the path saveFile writes before it renames: path + ".tmp"
TmpPath_inPlace(file) == file

TmpPath(file) == file \o ".tmp"

Paths == {"children.json", TmpPath("children.json")}

\* no file at the path
NoFile == [exists |-> FALSE, complete |-> FALSE, data |-> [id \in {} |-> 0]]

\* os.WriteFile has created or truncated the file and not written all of it
Partial == [exists |-> TRUE, complete |-> FALSE, data |-> [id \in {} |-> 0]]

\* json.MarshalIndent(s.children): every record of the collection
Marshal(ch) == [id \in {i \in DOMAIN ch : ch[i].inStore} |-> ch[id]]

\* a file that holds the whole of jsonData
Written(data) == [exists |-> TRUE, complete |-> TRUE, data |-> data]

\* no saveFile call in progress
NoIO == [pc |-> "idle", file |-> "", data |-> [id \in {} |-> 0]]

\* ----------------------------------------------------------------- time
\* now.Format("2006-01-02")
DateOf(t) == t \div DaySlots

\* int(now.Weekday())
WeekdayOf(t) == DateOf(t) % 7

\* now.Format("15:04"), as the minute of the day
MinuteOf(t) == (t % DaySlots) \div SlotsPerMin

\* ------------------------------------------------------------- schedule
\* IsAllowedNow without the test against the end of the block
IsAllowedNow_noEnd(s, t) ==
    \E i \in 1..Len(s.blocks) :
        /\ s.blocks[i].day = WeekdayOf(t)
        /\ MinuteOf(t) >= s.blocks[i].start

\* Schedule.IsAllowedNow at instant t
IsAllowedNow(s, t) ==
    \E i \in 1..Len(s.blocks) :
        /\ s.blocks[i].day = WeekdayOf(t)
        /\ MinuteOf(t) >= s.blocks[i].start
        /\ MinuteOf(t) <= s.blocks[i].end

\* A Go string is the sequence of its bytes.
\* a < b on strings: bytewise, a proper prefix first
RECURSIVE StrLess(_, _)
StrLess(a, b) ==
    IF b = <<>> THEN FALSE
    ELSE IF a = <<>> THEN TRUE
    ELSE IF Head(a) # Head(b) THEN Head(a) < Head(b)
    ELSE StrLess(Tail(a), Tail(b))

\* a <= b on strings
StrLE(a, b) == a = b \/ StrLess(a, b)

\* now.Format("15:04"): two digits, ':' (byte 58), two digits
Format1504(h, m) ==
    <<48 + (h \div 10), 48 + (h % 10), 58, 48 + (m \div 10), 48 + (m % 10)>>

\* IsAllowedNow with < for <= at the end of the block
IsAllowedNowAt_endExclusive(blocks, wd, h, m) ==
    LET currentTime == Format1504(h, m)
    IN  \E i \in 1..Len(blocks) :
            /\ blocks[i].day = wd
            /\ StrLE(blocks[i].start, currentTime)
            /\ StrLess(currentTime, blocks[i].end)

\* Schedule.IsAllowedNow when time.Now() is weekday wd, h:m; the blocks
\* hold start_time and end_time as strings
IsAllowedNowAt(blocks, wd, h, m) ==
    LET currentTime == Format1504(h, m)
    IN  \E i \in 1..Len(blocks) :
            /\ blocks[i].day = wd
            /\ StrLE(blocks[i].start, currentTime)
            /\ StrLE(currentTime, blocks[i].end)

\* ---------------------------------------------------------------- bytes
\* the printable ASCII characters but the double quote (34), the backslash
\* (92) and the grave accent (96), in order, by the byte before each run
Runs == <<[before |-> 31, chars |-> " !"],
          [before |-> 34, chars |-> "#$%&'()*+,-./0123456789:;<=>?@ABCDEFGHIJKLMNOPQRSTUVWXYZ["],
          [before |-> 92, chars |-> "]^_"],
          [before |-> 96, chars |-> "abcdefghijklmnopqrstuvwxyz{|}~"]>>

\* the byte of a character
Ord(c) ==
    LET r == CHOOSE k \in 1..Len(Runs) :
                \E i \in 1..Len(Runs[k].chars) : SubSeq(Runs[k].chars, i, i) = c
    IN  Runs[r].before
            + CHOOSE i \in 1..Len(Runs[r].chars) : SubSeq(Runs[r].chars, i, i) = c

\* the bytes of a string literal
Bytes(str) == SubSeq([i \in 1..Len(str) |-> Ord(SubSeq(str, i, i))], 1, Len(str))

IsPrintable(b) == b >= 32 /\ b <= 126

\* sub stands in t at position i
MatchAt(t, i, sub) ==
    /\ i + Len(sub) - 1 <= Len(t)
    /\ \A k \in 1..Len(sub) : t[i + k - 1] = sub[k]

\* strings.Contains
Contains(t, sub) == \E i \in 1..(Len(t) + 1) : MatchAt(t, i, sub)

\* strings.Index, counted from 1; 0 when sub does not occur
Index(t, sub) ==
    IF Contains(t, sub)
    THEN CHOOSE i \in 1..(Len(t) + 1) :
            /\ MatchAt(t, i, sub)
            /\ \A j \in 1..(i - 1) : ~MatchAt(t, j, sub)
    ELSE 0

\* strings.ReplaceAll for a non-empty old
RECURSIVE ReplaceAll(_, _, _)
ReplaceAll(t, old, new) ==
    LET i == Index(t, old)
    IN  IF i = 0 THEN t
        ELSE SubSeq(t, 1, i - 1) \o new
                \o ReplaceAll(SubSeq(t, i + Len(old), Len(t)), old, new)

\* strings.Split for a non-empty separator
RECURSIVE Split(_, _)
Split(t, sep) ==
    LET i == Index(t, sep)
    IN  IF i = 0 THEN <<t>>
        ELSE <<SubSeq(t, 1, i - 1)>> \o Split(SubSeq(t, i + Len(sep), Len(t)), sep)

\* strings.TrimRight(t, cutset)
RECURSIVE TrimRight(_, _)
TrimRight(t, cutset) ==
    IF t # <<>> /\ t[Len(t)] \in cutset
    THEN TrimRight(SubSeq(t, 1, Len(t) - 1), cutset)
    ELSE t

RECURSIVE TrimLeft(_, _)
TrimLeft(t, cutset) ==
    IF t # <<>> /\ Head(t) \in cutset THEN TrimLeft(Tail(t), cutset) ELSE t

\* the ASCII white space strings.TrimSpace cuts
Space == {9, 10, 11, 12, 13, 32}

\* strings.TrimSpace
TrimSpace(t) == TrimLeft(TrimRight(t, Space), Space)

\* strings.ToLower, on ASCII
ToLower(t) ==
    SubSeq([i \in 1..Len(t) |-> IF t[i] >= 65 /\ t[i] <= 90 THEN t[i] + 32 ELSE t[i]],
           1, Len(t))

\* strings.Map that keeps the printable ASCII bytes: sanitizeHeaderValue,
\* and the cleaning step of HandleFAS
sanitizeHeaderValue(t) == SelectSeq(t, IsPrintable)

\* the pieces lo..hi of a sequence of byte strings, one after the other
RECURSIVE Pieces(_, _, _)
Pieces(parts, lo, hi) ==
    IF lo > hi THEN <<>>
    ELSE IF lo = hi THEN parts[lo]
    ELSE Pieces(parts, lo, (lo + hi) \div 2)
            \o Pieces(parts, ((lo + hi) \div 2) + 1, hi)

\* bytes.Join without a separator
Flatten(parts) == Pieces(parts, 1, Len(parts))

\* --------------------------------------------------------------- base64
StdAlphabet == Bytes("ABCDEFGHIJKLMNOPQRSTUVWXYZabcdefghijklmnopqrstuvwxyz0123456789+/")

URLAlphabet == Bytes("ABCDEFGHIJKLMNOPQRSTUVWXYZabcdefghijklmnopqrstuvwxyz0123456789-_")

PadChar == 61     \* '='

\* the quantum of one to three bytes
Quantum(b) ==
    LET A == StdAlphabet
    IN  IF Len(b) = 1
        THEN <<A[(b[1] \div 4) + 1], A[(b[1] % 4) * 16 + 1], PadChar, PadChar>>
        ELSE IF Len(b) = 2
        THEN <<A[(b[1] \div 4) + 1],
               A[(b[1] % 4) * 16 + (b[2] \div 16) + 1],
               A[(b[2] % 16) * 4 + 1], PadChar>>
        ELSE <<A[(b[1] \div 4) + 1],
               A[(b[1] % 4) * 16 + (b[2] \div 16) + 1],
               A[(b[2] % 16) * 4 + (b[3] \div 64) + 1],
               A[(b[3] % 64) + 1]>>

\* base64.StdEncoding.EncodeToString
EncodeToString(b) ==
    LET n == (Len(b) + 2) \div 3
        Min(x, y) == IF x < y THEN x ELSE y
    IN  Flatten([k \in 1..n |->
                    Quantum(SubSeq(b, 3 * k - 2, Min(3 * k, Len(b))))])

\* the value of a character in an alphabet, -1 when it is not in it
Sextet(A, c) ==
    IF \E i \in 1..64 : A[i] = c THEN (CHOOSE i \in 1..64 : A[i] = c) - 1 ELSE -1

\* the bytes two to four sextets stand for
FromQuantum(q) ==
    IF Len(q) < 2 THEN <<>>
    ELSE IF Len(q) = 2 THEN <<q[1] * 4 + (q[2] \div 16)>>
    ELSE IF Len(q) = 3
    THEN <<q[1] * 4 + (q[2] \div 16), (q[2] % 16) * 16 + (q[3] \div 4)>>
    ELSE <<q[1] * 4 + (q[2] \div 16), (q[2] % 16) * 16 + (q[3] \div 4),
           (q[3] % 4) * 64 + q[4]>>

\* the bytes a run of sextets stands for
FromSextets(q) ==
    LET n == (Len(q) + 3) \div 4
        Min(x, y) == IF x < y THEN x ELSE y
    IN  Flatten([k \in 1..n |->
                    FromQuantum(SubSeq(q, 4 * k - 3, Min(4 * k, Len(q))))])

\* Encoding.DecodeString: err, or the bytes.  CR and LF are skipped.  A
\* padded encoding takes whole quanta whose last may end in one or two
\* '='; a raw one takes no '='.
DecodeString(A, padded, t) ==
    LET NotNewline(c) == c \notin {10, 13}
        s == SelectSeq(t, NotNewline)
        body == IF padded THEN TrimRight(s, {PadChar}) ELSE s
        q == SubSeq([i \in 1..Len(body) |-> Sextet(A, body[i])], 1, Len(body))
        ok == /\ \A i \in 1..Len(q) : q[i] >= 0
              /\ Len(body) % 4 # 1
              /\ padded => /\ Len(s) % 4 = 0
                            /\ Len(s) - Len(body) <= 2
    IN  IF ok THEN [err |-> FALSE, bytes |-> FromSextets(q)]
        ELSE [err |-> TRUE, bytes |-> <<>>]

\* ------------------------------------------------------------------ url
IsHex(c) == c \in (48..57) \cup (65..70) \cup (97..102)

Unhex(c) ==
    IF c <= 57 THEN c - 48 ELSE IF c >= 97 THEN c - 97 + 10 ELSE c - 65 + 10

\* "%AB" to the byte 0xAB, '+' to a space, where every '%' starts "%XX"
Unescaped(t) ==
    Flatten([i \in 1..Len(t) |->
                IF t[i] = 37 THEN <<Unhex(t[i + 1]) * 16 + Unhex(t[i + 2])>>
                ELSE IF (i > 1 /\ t[i - 1] = 37) \/ (i > 2 /\ t[i - 2] = 37)
                THEN <<>>
                ELSE IF t[i] = 43 THEN <<32>>
                ELSE <<t[i]>>])

\* url.QueryUnescape: err when a '%' is not followed by two hex digits
QueryUnescape(t) ==
    IF \E i \in 1..Len(t) :
            /\ t[i] = 37
            /\ (i + 2 > Len(t) \/ ~IsHex(t[i + 1]) \/ ~IsHex(t[i + 2]))
    THEN [err |-> TRUE, bytes |-> <<>>]
    ELSE [err |-> FALSE, bytes |-> Unescaped(t)]

\* safeURLUnescape without the decoding
safeURLUnescape_asIs(t) == t

\* safeURLUnescape
safeURLUnescape(t) ==
    IF QueryUnescape(t).err THEN t ELSE QueryUnescape(t).bytes

UpperHex == Bytes("0123456789ABCDEF")

\* the bytes url.QueryEscape leaves as they are
Unreserved(c) ==
    c \in (48..57) \cup (65..90) \cup (97..122) \cup {45, 95, 46, 126}

\* url.QueryEscape
QueryEscape(t) ==
    Flatten([i \in 1..Len(t) |->
                IF Unreserved(t[i]) THEN <<t[i]>>
                ELSE IF t[i] = 32 THEN <<43>>
                ELSE <<37, UpperHex[(t[i] \div 16) + 1],
                       UpperHex[(t[i] % 16) + 1]>>])

\* strconv.Itoa for n >= 0
RECURSIVE Itoa(_)
Itoa(n) ==
    IF n < 10 THEN <<48 + n>> ELSE Itoa(n \div 10) \o <<48 + (n % 10)>>

\* ------------------------------------------------------------ handshake
NoFAS == [HID |-> <<>>, ClientIP |-> <<>>, ClientMAC |-> <<>>,
          GatewayName |-> <<>>, GatewayHash |-> <<>>, AuthDir |-> <<>>,
          OriginURL |-> <<>>]

\* the keys parseFASData knows, with the field each one sets
Keys == <<[key |-> Bytes("hid"), field |-> "HID"],
          [key |-> Bytes("clientip"), field |-> "ClientIP"],
          [key |-> Bytes("clientmac"), field |-> "ClientMAC"],
          [key |-> Bytes("gatewayname"), field |-> "GatewayName"],
          [key |-> Bytes("gatewayhash"), field |-> "GatewayHash"],
          [key |-> Bytes("authdir"), field |-> "AuthDir"],
          [key |-> Bytes("originurl"), field |-> "OriginURL"]>>

NullMarker == Bytes("(null)")

\* the loop body of parseFASData
ParsePair(fas, rawPair) ==
    LET pair == TrimSpace(rawPair)
        eq == Index(pair, <<61>>)
        key == TrimSpace(ToLower(SubSeq(pair, 1, eq - 1)))
        value == TrimSpace(SubSeq(pair, eq + 1, Len(pair)))
    IN  IF Len(pair) = 0 \/ eq = 0 THEN fas
        ELSE IF Len(value) = 0 \/ value = NullMarker THEN fas
        ELSE IF \E k \in 1..Len(Keys) : Keys[k].key = key
        THEN [fas EXCEPT ![Keys[CHOOSE k \in 1..Len(Keys) :
                                    Keys[k].key = key].field] = value]
        ELSE fas

RECURSIVE ParsePairs(_, _)
ParsePairs(fas, pairs) ==
    IF Len(pairs) = 0 THEN fas
    ELSE ParsePairs(ParsePair(fas, Head(pairs)), Tail(pairs))

\* FASHandler.parseFASData
parseFASData(data) == ParsePairs(NoFAS, Split(data, <<44, 32>>))

\* normalizeMAC that takes out the colons alone
normalizeMAC_colonsOnly(mac) ==
    LET IsDigit(c) == c # 58
        m == ToLower(SelectSeq(mac, IsDigit))
    IN  IF Len(m) = 12
        THEN SubSeq(m, 1, 2) \o <<58>> \o SubSeq(m, 3, 4) \o <<58>>
                \o SubSeq(m, 5, 6) \o <<58>> \o SubSeq(m, 7, 8) \o <<58>>
                \o SubSeq(m, 9, 10) \o <<58>> \o SubSeq(m, 11, 12)
        ELSE m

\* normalizeMAC
normalizeMAC(mac) ==
    LET IsDigit(c) == c \notin {58, 45, 46}
        m == ToLower(SelectSeq(mac, IsDigit))
    IN  IF Len(m) = 12
        THEN SubSeq(m, 1, 2) \o <<58>> \o SubSeq(m, 3, 4) \o <<58>>
                \o SubSeq(m, 5, 6) \o <<58>> \o SubSeq(m, 7, 8) \o <<58>>
                \o SubSeq(m, 9, 10) \o <<58>> \o SubSeq(m, 11, 12)
        ELSE m

\* HandleFAS with the standard decoding alone
DecodeFAS_stdOnly(fasParam) == DecodeString(StdAlphabet, TRUE, fasParam)

\* HandleFAS, step 2: the first decoding that succeeds
DecodeFAS(fasParam) ==
    LET m == Len(fasParam) % 4
        padded == IF m # 0 THEN fasParam \o [i \in 1..(4 - m) |-> PadChar]
                  ELSE fasParam
        std == DecodeString(StdAlphabet, TRUE, fasParam)
        fixed == DecodeString(StdAlphabet, TRUE, padded)
        urlSafe == DecodeString(URLAlphabet, TRUE, fasParam)
        raw == DecodeString(StdAlphabet, FALSE, fasParam)
    IN  IF ~std.err THEN std
        ELSE IF ~fixed.err THEN fixed
        ELSE IF ~urlSafe.err THEN urlSafe
        ELSE raw

\* HandleFAS, step 3: for strings.Contains(rawString, "(null)") { ReplaceAll }
RECURSIVE StripNull(_)
StripNull(t) ==
    IF Contains(t, NullMarker) THEN StripNull(ReplaceAll(t, NullMarker, <<>>))
    ELSE t

\* HandleFAS, step 3
Clean(decodedBytes) ==
    TrimRight(StripNull(TrimRight(SelectSeq(decodedBytes, IsPrintable),
                                  {32, 44})), {32, 44})

\* url.Values.Encode of the six parameters HandleFAS sets, sorted by key
Encode(fas) ==
    Bytes("authdir=") \o QueryEscape(fas.AuthDir)
        \o Bytes("&gatewayname=") \o QueryEscape(fas.GatewayName)
        \o Bytes("&hid=") \o QueryEscape(fas.HID)
        \o Bytes("&ip=") \o QueryEscape(fas.ClientIP)
        \o Bytes("&mac=") \o QueryEscape(fas.ClientMAC)
        \o Bytes("&originurl=") \o QueryEscape(fas.OriginURL)

\* config.OpenNDS.GatewayIP and config.Server.Port, as text
GatewayIP == Bytes("192.168.1.1")

Port == Bytes("8080")

\* http.Redirect to "/portal"
ToPortal == [status |-> 302, location |-> Bytes("/portal"), fas |-> NoFAS]

\* HandleFAS, step 5: the MAC the ARP table holds for the client's address
LookedUp(parsed, remoteIP, arp) ==
    IF Len(parsed.ClientMAC) # 0 THEN parsed
    ELSE [parsed EXCEPT !.ClientIP = IF Len(@) = 0 THEN remoteIP ELSE @,
                        !.ClientMAC = arp]

\* HandleFAS, steps 6 to 8
Sanitized(fasData) ==
    [HID |-> sanitizeHeaderValue(fasData.HID),
     ClientMAC |-> sanitizeHeaderValue(normalizeMAC(fasData.ClientMAC)),
     ClientIP |-> sanitizeHeaderValue(fasData.ClientIP),
     GatewayName |-> sanitizeHeaderValue(safeURLUnescape(fasData.GatewayName)),
     GatewayHash |-> fasData.GatewayHash,
     AuthDir |-> sanitizeHeaderValue(safeURLUnescape(fasData.AuthDir)),
     OriginURL |-> sanitizeHeaderValue(safeURLUnescape(fasData.OriginURL))]

\* HandleFAS, steps 9 and 10
PortalRedirect(fasData) ==
    [status |-> 302,
     location |-> Bytes("http://") \o GatewayIP \o <<58>> \o Port
                     \o Bytes("/portal?") \o Encode(fasData),
     fas |-> fasData]

\* HandleFAS, steps 3 to 10
Decoded(decoded, remoteIP, arp) ==
    IF decoded.err THEN ToPortal
    ELSE PortalRedirect(Sanitized(LookedUp(parseFASData(Clean(decoded.bytes)),
                                           remoteIP, arp)))

\* FASHandler.HandleFAS for the query parameter fas, a request from
\* remoteIP, and the MAC arp that getMACFromIP finds ("" for none)
HandleFAS(fasParam, remoteIP, arp) ==
    IF Len(fasParam) = 0 THEN ToPortal
    ELSE Decoded(DecodeFAS(ReplaceAll(fasParam, <<32>>, <<43>>)), remoteIP, arp)

\* ----------------------------------------------------- handshake payloads
\* the text the gateway encodes: the present pairs joined by ", ", then
\* what it appends for unset parameters; noise stands at the start of
\* every value
Pair(key, value, noise) ==
    IF value = "" THEN <<>> ELSE <<Bytes(key) \o <<61>> \o noise \o Bytes(value)>>

RECURSIVE Join(_, _)
Join(elems, sep) ==
    IF Len(elems) = 0 THEN <<>>
    ELSE IF Len(elems) = 1 THEN elems[1]
    ELSE elems[1] \o sep \o Join(Tail(elems), sep)

Payload(a) ==
    Join(Pair("hid", a.hid, a.noise) \o Pair("clientmac", a.mac, a.noise)
            \o Pair("clientip", a.ip, a.noise)
            \o Pair("gatewayname", a.gw, a.noise)
            \o Pair("authdir", a.authdir, a.noise)
            \o Pair("originurl", a.url, a.noise), <<44, 32>>)
        \o Bytes(a.suffix)

\* what the query string and r.URL.Query().Get make of the encoded text
Transport(e, mode) ==
    IF mode = "spaces" THEN ReplaceAll(e, <<43>>, <<32>>)
    ELSE IF mode = "nopad" THEN TrimRight(e, {PadChar})
    ELSE IF mode = "urlsafe"
    THEN ReplaceAll(ReplaceAll(e, <<43>>, <<45>>), <<47>>, <<95>>)
    ELSE e

MacTexts == {"", "AA:BB:CC:DD:EE:FF", "aa-bb-cc-dd-ee-ff"}

UrlTexts == {"", "http://example.com/", "http://example.com/%3Fq=a+b",
             "http://example.com/100%"}

Suffixes == {"", "(null)", ", (null), "}

Transports == {"std", "spaces", "nopad", "urlsafe"}

Noises == {<<>>, <<7, 200>>}

RemoteIP == Bytes("10.0.0.9")

\* the hid, the gateway name and the authdir a payload carries
Extras == {[hid |-> "", gw |-> "", authdir |-> ""],
           [hid |-> "4f2a", gw |-> "", authdir |-> ""],
           [hid |-> "4f2a", gw |-> "Home%20Net", authdir |-> "(null)"]}

ArpTexts == {"", "11:22:33:44:55:66"}

FASArgs ==
    {a \in {[op |-> "fas", hid |-> x.hid, mac |-> mac, ip |-> ip, gw |-> x.gw,
             authdir |-> x.authdir, url |-> url, suffix |-> suffix,
             noise |-> noise, transport |-> transport, arp |-> arp] :
                x \in Extras, mac \in MacTexts, ip \in {"", "10.0.0.5"},
                url \in UrlTexts, suffix \in Suffixes, noise \in Noises,
                transport \in Transports, arp \in ArpTexts} :
        /\ a.mac # "" => a.arp = ""
        /\ a.noise # <<>> => a.transport = "std"}

\* query parameters that are no encoding of a payload text: none, bytes
\* outside every alphabet, a lone character, and "hid=4f", "hid=4" and
\* "hid=~~" in the forms each decoding is the first to take
RawTexts ==
    {<<>>, Bytes("!!!!"), Bytes("a"), Bytes("aGlkPTRm"), Bytes("aGlkPTQ"),
     Bytes("aGlkPX5 "), Bytes("aGlkPX5-"), Bytes("aGlkPTQ") \o <<10>>}

RawArgs == {[op |-> "raw", fas |-> t, arp |-> arp] :
                t \in RawTexts, arp \in ArpTexts}

\* r.URL.Query().Get("fas")
FASParam(a) ==
    IF a.op = "raw" THEN a.fas
    ELSE Transport(EncodeToString(Payload(a)), a.transport)

\* -------------------------------------------------- HandleAuth redirects
\* the Location header http.Redirect writes for an absolute or rooted
\* url: bytes from 0x80 on as %XX, CR and LF as spaces, the rest as it is
Location(u) ==
    Flatten([i \in 1..Len(u) |->
                IF u[i] >= 128
                THEN <<37, UpperHex[(u[i] \div 16) + 1],
                       UpperHex[(u[i] % 16) + 1]>>
                ELSE IF u[i] \in {10, 13} THEN <<32>>
                ELSE <<u[i]>>])

\* HandleAuth: req.MAC after the ARP lookup and normalizeMAC
AuthMAC(mac, arp) ==
    LET m == IF Len(mac) = 0 THEN arp ELSE mac
    IN  IF Len(m) # 0 THEN normalizeMAC(m) ELSE m

\* HandleAuth: errorURL
ErrorURL(form, arp, msg) ==
    Bytes("/portal?hid=") \o QueryEscape(form.HID)
        \o Bytes("&mac=") \o QueryEscape(AuthMAC(form.MAC, arp))
        \o Bytes("&ip=") \o QueryEscape(form.IP)
        \o Bytes("&authdir=") \o QueryEscape(form.AuthDir)
        \o Bytes("&originurl=") \o QueryEscape(form.OriginURL)
        \o Bytes("&error=") \o QueryEscape(Bytes(msg))

\* HandleAuth: redirectURL of a child's login
SuccessURL(form, name, remainingMin) ==
    LET redirectTarget ==
            IF Len(form.OriginURL) = 0 \/ form.OriginURL = Bytes("null")
            THEN Bytes("http://") \o GatewayIP \o Bytes(":8080/portal?success=1")
            ELSE form.OriginURL
    IN  redirectTarget \o Bytes("&child_name=") \o QueryEscape(name)
            \o Bytes("&remaining=") \o Itoa(remainingMin)

Outcomes == {"invalid", "no time", "blocked", "success"}

\* HandleAuth for a form: the redirect of the branch the login takes
HandleAuthRedirect(form, arp, outcome, name, remainingMin) ==
    [status |-> 302,
     location |->
        Location(IF outcome = "invalid"
                 THEN ErrorURL(form, arp, "Invalid username or password")
                 ELSE IF outcome = "no time"
                 THEN ErrorURL(form, arp, "No time remaining for today")
                 ELSE IF outcome = "blocked"
                 THEN ErrorURL(form, arp,
                               "Internet access not allowed at this time")
                 ELSE SuccessURL(form, name, remainingMin)),
     fas |-> NoFAS]

\* form values, the attacker's among them
FormURLs ==
    {<<>>, Bytes("null"), Bytes("http://example.com/?a=1"),
     Bytes("http://example.com/") \o <<13, 10>> \o Bytes("Set-Cookie: a=b"),
     Bytes("http://example.com/") \o <<1>>,
     Bytes("http://example.com/") \o <<127>>,
     Bytes("http://example.com/") \o <<200>>,
     Bytes("http://example.com/%0d%0a")}

FormTexts == {Bytes("4f2a"), <<52, 9, 102>>}

FormMACs == {<<>>, Bytes("AA-BB-CC-DD-EE-FF"), <<0, 226, 130, 172>>}

AuthArgs ==
    {a \in {[op |-> "auth",
             form |-> [HID |-> hid, MAC |-> mac, IP |-> Bytes("10.0.0.5"),
                       AuthDir |-> authdir, OriginURL |-> url],
             arp |-> Bytes(arp), outcome |-> outcome] :
                hid \in FormTexts, mac \in FormMACs,
                authdir \in {Bytes("opennds_auth"), <<11>>}, url \in FormURLs,
                arp \in ArpTexts, outcome \in Outcomes} :
        Len(a.form.MAC) # 0 => Len(a.arp) = 0}

\* ---------------------------------------------------------------- child
NoChild == [inStore |-> FALSE, quota |-> 0, used |-> 0, lastReset |-> 0,
            sched |-> NoSchedule, devices |-> <<>>, born |-> FALSE,
            user |-> "", enabled |-> FALSE]

\* Child.RemainingMinutes
RemainingMinutes(c) ==
    IF c.quota - c.used < 0 THEN 0 ELSE c.quota - c.used

\* Child.HasDevice
HasDevice(c, mac) == \E i \in 1..Len(c.devices) : c.devices[i] = mac

\* Child.AddDevice
AddDevice(c, mac) ==
    IF HasDevice(c, mac) THEN c
    ELSE [c EXCEPT !.devices = Append(c.devices, mac)]

\* Storage.GetChild: the record, or nil when the id is not in the store
GetChild(ch, id) == IF id \in ChildIds /\ ch[id].inStore THEN id ELSE "nil"

\* ResetDailyQuotas for the children whose date is stale only
ResetDailyQuotas_staleOnly(ch, date) ==
    [id \in ChildIds |->
        IF ch[id].inStore /\ ch[id].lastReset # date
        THEN [ch[id] EXCEPT !.used = 0, !.lastReset = date]
        ELSE ch[id]]

\* Storage.ResetDailyQuotas
ResetDailyQuotas(ch, date) ==
    [id \in ChildIds |->
        IF ch[id].inStore
        THEN [ch[id] EXCEPT !.used = 0, !.lastReset = date]
        ELSE ch[id]]

\* checkDailyReset without the staleness test: every tick resets.
checkDailyReset_always(ch, t) == ResetDailyQuotas(ch, DateOf(t))

\* checkDailyReset: needsReset
NeedsReset(ch, t) ==
    \E id \in ChildIds : ch[id].inStore /\ ch[id].lastReset # DateOf(t)

\* SessionTicker.checkDailyReset
checkDailyReset(ch, t) ==
    IF \E id \in ChildIds : ch[id].inStore /\ ch[id].lastReset # DateOf(t)
    THEN ResetDailyQuotas(ch, DateOf(t))
    ELSE ch

\* ------------------------------------------------------------- sessions
\* Storage.ListSessions: the active rows, in store order
RECURSIVE ActiveFrom(_, _)
ActiveFrom(ss, i) ==
    IF i > Len(ss) THEN <<>>
    ELSE IF ss[i].active THEN <<i>> \o ActiveFrom(ss, i + 1)
    ELSE ActiveFrom(ss, i + 1)

ListSessions(ss) == ActiveFrom(ss, 1)

\* ---------------------------------------------------------------- ndsctl
NoCall == [kind |-> "none", min |-> 0, by |-> "none", ok |-> TRUE]

\* NDSCtl.exec: nil, or the error of a failed run
ExecOK == "ndsctl" \notin faults

\* NDSCtl.exec: cmd.Run() waits for the process with no time limit
ExecHangs == "ndsctl.hang" \in faults

\* NDSCtl.Deauth; a session without MAC leaves no trace per MAC
Deauth(n, mac, by) ==
    IF mac \in MACs
    THEN [n EXCEPT ![mac] = [kind |-> "deauth", min |-> 0, by |-> by,
                             ok |-> ExecOK]]
    ELSE n

\* NDSCtl.Auth
Auth(n, mac, minutes, by) ==
    [n EXCEPT ![mac] = [kind |-> "auth", min |-> minutes, by |-> by,
                        ok |-> ExecOK]]

\* ----------------------------------------------------------------- tick
\* The part of the state a tick works on; deauthed collects the sessions
\* deauthSession is called for.
Store == [children |-> children, sessions |-> sessions, nds |-> nds,
          accrued |-> accrued, deauthed |-> {}, unsaved |-> unsaved]

\* deauthSession that returns when the deauth call has failed
deauthSession_abortOnError(st, i) ==
    IF ExecOK
    THEN [st EXCEPT !.nds = Deauth(st.nds, st.sessions[i].mac, "tick"),
                    !.sessions[i].active = FALSE,
                    !.deauthed = st.deauthed \cup {i},
                    !.unsaved = saveFile(@, "sessions.json")]
    ELSE [st EXCEPT !.nds = Deauth(st.nds, st.sessions[i].mac, "tick")]

\* SessionTicker.deauthSession
deauthSession(st, i) ==
    [st EXCEPT !.nds = Deauth(st.nds, st.sessions[i].mac, "tick"),
               !.sessions[i].active = FALSE,
               !.deauthed = st.deauthed \cup {i},
               !.unsaved = saveFile(@, "sessions.json")]

\* minutesToAdd always measured from started_at.
MinutesToAdd_fromStart(s, tnow) == (tnow - s.startedAt) \div SlotsPerMin

\* tick(): minutesToAdd for a session at the tick's instant tnow
MinutesToAdd(s, tnow) ==
    IF s.lastTickAt = NoTick
    THEN (tnow - s.startedAt) \div SlotsPerMin
    ELSE (tnow - s.lastTickAt) \div SlotsPerMin

\* "Update usage" that advances last_tick_at on every tick.
Accrue_touch(st, i, tnow) ==
    LET s == st.sessions[i]
        m == MinutesToAdd(s, tnow)
    IN  [st EXCEPT !.children[s.child].used = IF m > 0 THEN @ + m ELSE @,
                   !.sessions[i].lastTickAt = tnow,
                   !.accrued[i] = IF m > 0 THEN @ + m ELSE @]

\* "Update usage" that needs more than one minute to act.
Accrue_skipOne(st, i, tnow) ==
    LET s == st.sessions[i]
        m == MinutesToAdd(s, tnow)
    IN  IF m > 1
        THEN [st EXCEPT !.children[s.child].used = @ + m,
                        !.sessions[i].lastTickAt = tnow,
                        !.accrued[i] = @ + m]
        ELSE st

\* tick(): "Update usage"
Accrue(st, i, tnow) ==
    LET s == st.sessions[i]
        m == MinutesToAdd(s, tnow)
    IN  IF m > 0
        THEN [st EXCEPT !.children[s.child].used = @ + m,
                        !.sessions[i].lastTickAt = tnow,
                        !.accrued[i] = @ + m,
                        !.unsaved = saveFile(saveFile(@, "children.json"),
                                             "sessions.json")]
        ELSE st

\* the quota check with > for >=
QuotaExceeded_strict(c) == c.used > c.quota

\* tick(): "Check quota exceeded"
QuotaExceeded(c) == c.used >= c.quota

\* tick(): "Check schedule"; clk is the time.Now() inside IsAllowedNow
ScheduleEnded(c, sch, clk) ==
    /\ c.sched # NoSchedule
    /\ sch[c.sched].inStore
    /\ ~IsAllowedNow(sch[c.sched], clk)

\* the loop body that skips a session whose child is gone
TickSessionOp_skipOrphan(st, sch, i, tnow, clk) ==
    LET s == st.sessions[i]
    IN  IF ~s.active \/ GetChild(st.children, s.child) = "nil" THEN st
        ELSE LET st2 == Accrue(st, i, tnow)
                 c == st2.children[s.child]
             IN  IF QuotaExceeded(c) THEN deauthSession(st2, i)
                 ELSE IF ScheduleEnded(c, sch, clk) THEN deauthSession(st2, i)
                 ELSE st2

\* tick(): the body of the loop for the session with index i
TickSessionOp(st, sch, i, tnow, clk) ==
    LET s == st.sessions[i]
    IN  IF ~s.active THEN st
        ELSE IF GetChild(st.children, s.child) = "nil"
        THEN deauthSession(st, i)
        ELSE LET st2 == Accrue(st, i, tnow)
                 c == st2.children[s.child]
             IN  IF QuotaExceeded(c) THEN deauthSession(st2, i)
                 ELSE IF ScheduleEnded(c, sch, clk) THEN deauthSession(st2, i)
                 ELSE st2

\* tick(): the statements before the loop
TickStartOp(st, tnow) ==
    [st EXCEPT !.children = checkDailyReset(st.children, tnow),
               !.unsaved = IF NeedsReset(st.children, tnow)
                           THEN saveFile(@, "children.json") ELSE @]


\* The whole of tick() run at one instant t: the fold of the loop body over
\* the snapshot ListSessions() returned.
RECURSIVE TickLoop(_, _, _, _)
TickLoop(st, sch, q, t) ==
    IF q = <<>> THEN st
    ELSE TickLoop(TickSessionOp(st, sch, Head(q), t, t), sch, Tail(q), t)

TickFull(st, sch, t) ==
    LET st1 == TickStartOp(st, t)
    IN  TickLoop(st1, sch, ListSessions(st1.sessions), t)

\* ----------------------------------------------------------------- init
\* saveErr: SaveChild or SaveSession returned an error to this request
Idle == [pc |-> "idle", who |-> "none", mac |-> NoMAC, rem |-> 0,
         saveErr |-> FALSE]

\* No response written in the step just taken.
NoResp == [status |-> 0, msg |-> "", rem |-> 0, logged |-> ""]

\* The schedule on file: access on weekday 0, minute 0 of the day.
Schedule1 == [inStore |-> TRUE, blocks |-> <<[day |-> 0, start |-> 0, end |-> 0]>>]

\* no adjustQuota request in flight
NoDevice == [pc |-> "idle", id |-> "", mac |-> ""]

NoAdjust == [pc |-> "idle", id |-> "", minutes |-> 0, val |-> 0]

\* no function under evaluation
NoArg == <<>>

NoRet == [done |-> FALSE]

\* the process after construction
InitState ==
    /\ now = 0
    /\ children = [id \in ChildIds |-> NoChild]
    /\ sessions = <<>>
    /\ schedules = [id \in {"s1"} |-> Schedule1]
    /\ nds = [m \in MACs |-> NoCall]
    /\ accrued = <<>>
    /\ tickPc = "idle"
    /\ tickNow = 0
    /\ tickQueue = <<>>
    /\ req = Idle
    /\ resp = NoResp
    /\ faults = {}
    /\ unsaved = {}
    /\ adj = NoAdjust
    /\ dev = NoDevice
    /\ disk = [p \in Paths |-> NoFile]
    /\ io = NoIO
    /\ stopChan = FALSE
    /\ doneChan = FALSE
    /\ stopPc = "idle"

Init ==
    /\ InitState
    /\ arg = NoArg
    /\ ret = NoRet

tickVars == <<tickPc, tickNow, tickQueue>>

\* ---------------------------------------------------------------- clock
Advance ==
    /\ now < MaxTime
    /\ now' = now + 1
    /\ resp' = NoResp
    /\ UNCHANGED auxVars
    /\ UNCHANGED <<children, sessions, schedules, nds, accrued, tickVars, req,
                   faults, unsaved>>

\* ndsctl or the data directory starts or stops failing
Fault(f) ==
    /\ f \in SUBSET (Faults \cup Hangs)
    /\ f # faults
    /\ faults' = f
    /\ resp' = NoResp
    /\ UNCHANGED auxVars
    /\ UNCHANGED <<now, children, sessions, schedules, nds, accrued, tickVars,
                   req, unsaved>>

\* ----------------------------------------------------- SessionTicker.tick
\* case <-ticker.C: now := time.Now(); checkDailyReset; ListSessions
TickStart ==
    /\ tickPc = "idle"
    /\ ~doneChan
    /\ LET st == TickStartOp(Store, now)
           q == ListSessions(sessions)
       IN  /\ children' = st.children
           /\ unsaved' = st.unsaved
           /\ tickNow' = IF q = <<>> THEN 0 ELSE now
           /\ tickQueue' = q
           /\ tickPc' = IF q = <<>> THEN "idle" ELSE "run"
    /\ resp' = NoResp
    /\ UNCHANGED auxVars
    /\ UNCHANGED <<now, sessions, schedules, nds, accrued, req, faults>>

\* the loop left as soon as a write to the data directory has failed
TickRest_abort(q, st) == IF st.unsaved # {} THEN <<>> ELSE Tail(q)

\* tick(): the sessions still to be visited once the body has run for the
\* head of q; no statement of the body leaves the loop
TickRest(q, st) == Tail(q)

\* the loop body up to the call of deauthSession
BeforeDeauth(st, i, tnow) ==
    IF GetChild(st.children, st.sessions[i].child) = "nil" THEN st
    ELSE Accrue(st, i, tnow)

\* one iteration of "for _, session := range sessions"; when ndsctl hangs,
\* the iteration stays in the Deauth call of deauthSession ("hung")
TickSession ==
    /\ tickPc = "run"
    /\ LET i == Head(tickQueue)
           full == TickSessionOp(Store, schedules, i, tickNow, now)
           blocked == ExecHangs /\ full.deauthed # {}
           st == IF blocked THEN BeforeDeauth(Store, i, tickNow) ELSE full
           rest == IF blocked THEN tickQueue ELSE TickRest(tickQueue, st)
       IN  /\ children' = st.children
           /\ sessions' = st.sessions
           /\ nds' = st.nds
           /\ accrued' = st.accrued
           /\ unsaved' = st.unsaved
           /\ tickQueue' = rest
           /\ tickPc' = IF blocked THEN "hung"
                        ELSE IF rest = <<>> THEN "idle" ELSE "run"
           /\ tickNow' = IF rest = <<>> THEN 0 ELSE tickNow
    /\ resp' = NoResp
    /\ UNCHANGED auxVars
    /\ UNCHANGED <<now, schedules, req, faults>>

\* -------------------------------------------- SessionTicker.Start, Stop
\* Stop that does not wait for the goroutine
StopReturn_noWait ==
    /\ stopPc = "wait"
    /\ stopPc' = "returned"
    /\ resp' = NoResp
    /\ UNCHANGED <<now, children, sessions, schedules, nds, accrued, tickVars,
                   req, faults, unsaved, adminVars, diskVars, callVars, stopChan, doneChan>>

\* Stop: close(t.stopChan)
StopClose ==
    /\ stopPc = "idle"
    /\ stopChan' = TRUE
    /\ stopPc' = "wait"
    /\ resp' = NoResp
    /\ UNCHANGED <<now, children, sessions, schedules, nds, accrued, tickVars,
                   req, faults, unsaved, adminVars, diskVars, callVars, doneChan>>

\* the goroutine in select: case <-t.stopChan: ticker.Stop(); return, and
\* the deferred close(t.doneChan)
LoopStop ==
    /\ tickPc = "idle"
    /\ stopChan
    /\ ~doneChan
    /\ doneChan' = TRUE
    /\ resp' = NoResp
    /\ UNCHANGED <<now, children, sessions, schedules, nds, accrued, tickVars,
                   req, faults, unsaved, adminVars, diskVars, callVars, stopChan, stopPc>>

\* Stop: <-t.doneChan, and the return
StopReturn ==
    /\ stopPc = "wait"
    /\ doneChan
    /\ stopPc' = "returned"
    /\ resp' = NoResp
    /\ UNCHANGED <<now, children, sessions, schedules, nds, accrued, tickVars,
                   req, faults, unsaved, adminVars, diskVars, callVars, stopChan, doneChan>>

\* ------------------------------------------------------- ChildrenHandler
\* services.GenerateID(): an id no child has had
FreshChild(id) ==
    \E k \in 1..Len(ChildSeq) :
        /\ id = ChildSeq[k]
        /\ ~children[id].born
        /\ \A j \in 1..(k - 1) : children[ChildSeq[j]].born

\* create: "Set defaults"
CreateQuota(q) == IF q = 0 THEN DefaultQuota ELSE q

\* Storage.GetChildByUsername: the first child of the store with the name
GetChildByUsername(ch, user) ==
    LET hits == {k \in 1..Len(ChildSeq) :
                    ch[ChildSeq[k]].inStore /\ ch[ChildSeq[k]].user = user}
    IN  IF hits = {} THEN "nil"
        ELSE ChildSeq[CHOOSE k \in hits : \A j \in hits : k <= j]

\* ChildrenHandler.create; the child's username is its id
CreateChild(id, q, sc) ==
    /\ FreshChild(id)
    /\ GetChildByUsername(children, id) = "nil"
    /\ children' = [children EXCEPT ![id] =
            [inStore |-> TRUE, quota |-> CreateQuota(q), used |-> 0,
             lastReset |-> DateOf(now), sched |-> sc, devices |-> <<>>,
             born |-> TRUE, user |-> id, enabled |-> TRUE]]
    /\ unsaved' = saveFile(unsaved, "children.json")
    /\ resp' = NoResp
    /\ UNCHANGED auxVars
    /\ UNCHANGED <<now, sessions, schedules, nds, accrued, tickVars, req, faults>>

\* ChildrenHandler.update: username, quota, schedule reference, is_active
UpdateChild(id, user, q, sc, en) ==
    /\ GetChild(children, id) # "nil"
    /\ GetChildByUsername(children, user) \in {"nil", id}
    /\ children' = [children EXCEPT
            ![id].user = IF user # "" THEN user ELSE @,
            ![id].quota = IF q > 0 THEN q ELSE @,
            ![id].sched = sc,
            ![id].enabled = en]
    /\ unsaved' = saveFile(unsaved, "children.json")
    /\ resp' = NoResp
    /\ UNCHANGED auxVars
    /\ UNCHANGED <<now, sessions, schedules, nds, accrued, tickVars, req, faults>>

\* A deleted child that no handler holds a pointer to is garbage.
Gone == [NoChild EXCEPT !.born = TRUE]

Held(id) ==
    \/ req.pc # "idle" /\ req.who = id
    \/ adj.pc # "idle" /\ adj.id = id
    \/ dev.pc # "idle" /\ dev.id = id

\* ChildrenHandler.delete, Storage.DeleteChild
DeleteChild(id) ==
    /\ GetChild(children, id) # "nil"
    /\ children' = [children EXCEPT ![id] =
            IF Held(id) THEN [@ EXCEPT !.inStore = FALSE] ELSE Gone]
    /\ unsaved' = saveFile(unsaved, "children.json")
    /\ resp' = NoResp
    /\ UNCHANGED auxVars
    /\ UNCHANGED <<now, sessions, schedules, nds, accrued, tickVars, req, faults>>

\* adjustQuota: the new used_today_min
AdjustedUsed(c, minutes) ==
    LET u1 == c.used - minutes
        u2 == IF u1 < 0 THEN 0 ELSE u1
    IN  IF u2 > c.quota + MaxOverQuota THEN c.quota + MaxOverQuota ELSE u2

\* ChildrenHandler.adjustQuota
AdjustQuota(id, minutes) ==
    /\ GetChild(children, id) # "nil"
    /\ AdjustedUsed(children[id], minutes) <= MaxUsed
    /\ children' = [children EXCEPT ![id].used = AdjustedUsed(children[id], minutes)]
    /\ unsaved' = saveFile(unsaved, "children.json")
    /\ resp' = NoResp
    /\ UNCHANGED auxVars
    /\ UNCHANGED <<now, sessions, schedules, nds, accrued, tickVars, req, faults>>

\* ------------------------------------------- Storage.saveFile, in steps
\* ChildrenHandler.create up to the os.WriteFile of saveFile: SaveChild
\* takes Storage.mu, appends the record and marshals the collection
SaveChildLocked(id, q) ==
    /\ io.pc = "idle"
    /\ FreshChild(id)
    /\ GetChildByUsername(children, id) = "nil"
    /\ children' = [children EXCEPT ![id] =
            [inStore |-> TRUE, quota |-> CreateQuota(q), used |-> 0,
             lastReset |-> DateOf(now), sched |-> NoSchedule, devices |-> <<>>,
             born |-> TRUE, user |-> id, enabled |-> TRUE]]
    /\ io' = [pc |-> "open", file |-> "children.json",
              data |-> Marshal(children')]
    /\ resp' = NoResp
    /\ UNCHANGED <<now, sessions, schedules, nds, accrued, tickVars, req,
                   faults, unsaved, adminVars, disk, loopVars, callVars>>

\* ChildrenHandler.delete up to the os.WriteFile of saveFile
DeleteChildLocked(id) ==
    /\ io.pc = "idle"
    /\ GetChild(children, id) # "nil"
    /\ children' = [children EXCEPT ![id] =
            IF Held(id) THEN [@ EXCEPT !.inStore = FALSE] ELSE Gone]
    /\ io' = [pc |-> "open", file |-> "children.json",
              data |-> Marshal(children')]
    /\ resp' = NoResp
    /\ UNCHANGED <<now, sessions, schedules, nds, accrued, tickVars, req,
                   faults, unsaved, adminVars, disk, loopVars, callVars>>

\* saveFile returns err: the Store operation returns it and unlocks
SaveFailed ==
    /\ io' = NoIO
    /\ unsaved' = unsaved \cup {io.file}
    /\ disk' = disk

\* os.WriteFile(tmpPath, ...): the file is created, or truncated
WriteFileOpen ==
    /\ io.pc = "open"
    /\ IF io.file \in faults
       THEN SaveFailed
       ELSE /\ disk' = [disk EXCEPT ![TmpPath(io.file)] = Partial]
            /\ io' = [io EXCEPT !.pc = "write"]
            /\ unsaved' = unsaved
    /\ resp' = NoResp
    /\ UNCHANGED <<now, children, sessions, schedules, nds, accrued, tickVars,
                   req, faults, adminVars, loopVars, callVars>>

\* os.WriteFile(tmpPath, ...): the last byte is written
WriteFileData ==
    /\ io.pc = "write"
    /\ IF io.file \in faults
       THEN SaveFailed
       ELSE /\ disk' = [disk EXCEPT ![TmpPath(io.file)] = Written(io.data)]
            /\ io' = [io EXCEPT !.pc = "rename"]
            /\ unsaved' = unsaved
    /\ resp' = NoResp
    /\ UNCHANGED <<now, children, sessions, schedules, nds, accrued, tickVars,
                   req, faults, adminVars, loopVars, callVars>>

\* os.Rename(tmpPath, path), and the return of the Store operation
Rename ==
    /\ io.pc = "rename"
    /\ IF io.file \in faults
       THEN SaveFailed
       ELSE /\ disk' = IF TmpPath(io.file) = io.file THEN disk
                       ELSE [disk EXCEPT ![io.file] = disk[TmpPath(io.file)],
                                         ![TmpPath(io.file)] = NoFile]
            /\ io' = NoIO
            /\ unsaved' = unsaved \ {io.file}
    /\ resp' = NoResp
    /\ UNCHANGED <<now, children, sessions, schedules, nds, accrued, tickVars,
                   req, faults, adminVars, loopVars, callVars>>

\* The process dies, at any statement.  The data directory holds
\* children.json only, so this is taken in the states without session rows.
Crash ==
    /\ io.pc # "down"
    /\ sessions = <<>>
    /\ io' = [NoIO EXCEPT !.pc = "down"]
    /\ req' = Idle
    /\ adj' = NoAdjust
    /\ dev' = NoDevice
    /\ tickPc' = "idle"
    /\ tickNow' = 0
    /\ tickQueue' = <<>>
    /\ unsaved' = {}
    /\ resp' = NoResp
    /\ stopChan' = FALSE
    /\ doneChan' = FALSE
    /\ stopPc' = "idle"
    /\ UNCHANGED <<now, children, sessions, schedules, nds, accrued, faults,
                   disk, callVars>>

\* the collection loadAll leaves in memory: a file that does not parse
\* leaves it empty (the error of json.Unmarshal is dropped)
LoadChildren(ch, f) ==
    [id \in ChildIds |->
        IF f.exists /\ f.complete /\ id \in DOMAIN f.data THEN f.data[id]
        ELSE IF ch[id].born THEN Gone
        ELSE NoChild]

\* storage.New, loadAll: the process starts again
LoadAll ==
    /\ io.pc = "down"
    /\ children' = LoadChildren(children, disk["children.json"])
    /\ io' = NoIO
    /\ resp' = NoResp
    /\ UNCHANGED <<now, sessions, schedules, nds, accrued, tickVars, req,
                   faults, unsaved, adminVars, disk, loopVars, callVars>>

\* adjustQuota, statement by statement.  The handler holds the pointer
\* GetChild returned and takes no lock between its read and its write of
\* UsedTodayMin.
\* child.UsedTodayMin -= req.Minutes: the read
AdjustLoad(id, minutes) ==
    /\ adj.pc = "idle"
    /\ GetChild(children, id) # "nil"
    /\ children[id].used - minutes <= MaxUsed
    /\ adj' = [pc |-> "store", id |-> id, minutes |-> minutes,
               val |-> children[id].used - minutes]
    /\ resp' = NoResp
    /\ UNCHANGED <<dev, now, children, sessions, schedules, nds, accrued, tickVars,
                   req, faults, unsaved, diskVars, loopVars, callVars>>

\* child.UsedTodayMin -= req.Minutes: the write
AdjustStore ==
    /\ adj.pc = "store"
    /\ children' = [children EXCEPT ![adj.id].used = adj.val]
    /\ adj' = [adj EXCEPT !.pc = "save"]
    /\ resp' = NoResp
    /\ UNCHANGED <<dev, now, sessions, schedules, nds, accrued, tickVars, req,
                   faults, unsaved, diskVars, loopVars, callVars>>

\* the two range checks on the record, then Storage.SaveChild, which
\* appends a record it does not find
AdjustSave ==
    /\ adj.pc = "save"
    /\ children' = [children EXCEPT
            ![adj.id].used = AdjustedUsed(children[adj.id], 0),
            ![adj.id].inStore = TRUE]
    /\ unsaved' = saveFile(unsaved, "children.json")
    /\ adj' = NoAdjust
    /\ resp' = NoResp
    /\ UNCHANGED <<dev, now, sessions, schedules, nds, accrued, tickVars, req,
                   faults, diskVars, loopVars, callVars>>

\* addDevice, statement by statement.  The handler holds the pointer
\* GetChild returned, and Child.AddDevice takes no lock between its
\* HasDevice loop and its append.
\* child.AddDevice: c.HasDevice(mac); a known MAC returns at once, and the
\* handler saves the child
AddDeviceCheck(id, mac) ==
    /\ dev.pc = "idle"
    /\ GetChild(children, id) # "nil"
    /\ mac # NoMAC
    /\ IF HasDevice(children[id], mac)
       THEN /\ unsaved' = saveFile(unsaved, "children.json")
            /\ dev' = dev
       ELSE /\ dev' = [pc |-> "append", id |-> id, mac |-> mac]
            /\ unsaved' = unsaved
    /\ resp' = NoResp
    /\ UNCHANGED <<adj, now, children, sessions, schedules, nds, accrued,
                   tickVars, req, faults, diskVars, loopVars, callVars>>

\* child.AddDevice: c.Devices = append(c.Devices, ...), then
\* Storage.SaveChild, which appends a record it does not find
AddDeviceAppend ==
    /\ dev.pc = "append"
    /\ children' = [children EXCEPT
            ![dev.id].devices = Append(@, dev.mac),
            ![dev.id].inStore = TRUE]
    /\ unsaved' = saveFile(unsaved, "children.json")
    /\ dev' = NoDevice
    /\ resp' = NoResp
    /\ UNCHANGED <<adj, now, sessions, schedules, nds, accrued, tickVars, req,
                   faults, diskVars, loopVars, callVars>>

\* ChildrenHandler.removeDevice
RemoveDevice(id, mac) ==
    /\ GetChild(children, id) # "nil"
    /\ mac # NoMAC
    /\ LET Other(m) == m # mac
       IN  children' = [children EXCEPT ![id].devices = SelectSeq(@, Other)]
    /\ unsaved' = saveFile(unsaved, "children.json")
    /\ resp' = NoResp
    /\ UNCHANGED auxVars
    /\ UNCHANGED <<now, sessions, schedules, nds, accrued, tickVars, req, faults>>

\* ------------------------------------------------------ SchedulesHandler
NoScheduleRec == [inStore |-> FALSE, blocks |-> <<>>]

\* SchedulesHandler.delete, Storage.DeleteSchedule: the children that
\* reference the schedule keep their schedule_id
DeleteSchedule(id) ==
    /\ schedules[id].inStore
    /\ schedules' = [schedules EXCEPT ![id] = NoScheduleRec]
    /\ resp' = NoResp
    /\ UNCHANGED auxVars
    /\ UNCHANGED <<now, children, sessions, nds, accrued, tickVars, req,
                   faults, unsaved>>

\* ------------------------------------------------------- SessionsHandler
\* SessionsHandler.kick
Kick(i) ==
    /\ i \in 1..Len(sessions)
    /\ ~ExecHangs
    /\ nds' = Deauth(nds, sessions[i].mac, "kick")
    /\ sessions' = [sessions EXCEPT ![i].active = FALSE]
    /\ unsaved' = saveFile(unsaved, "sessions.json")
    /\ resp' = NoResp
    /\ UNCHANGED auxVars
    /\ UNCHANGED <<now, children, schedules, accrued, tickVars, req, faults>>

\* extend: the response, and the child's quota afterwards
ExtendOp(ch, c, minutes) ==
    IF minutes <= 0
    THEN [status |-> 400, msg |-> "minutes must be positive", children |-> ch]
    ELSE IF GetChild(ch, c) = "nil"
    THEN [status |-> 404, msg |-> "child not found", children |-> ch]
    ELSE [status |-> 200, msg |-> "",
          children |-> [ch EXCEPT ![c].quota = @ + minutes]]

\* SessionsHandler.extend for the session with id i
Extend(i, minutes) ==
    /\ i \in 1..Len(sessions)
    /\ LET r == ExtendOp(children, sessions[i].child, minutes)
       IN  /\ \A id \in ChildIds : r.children[id].quota <= MaxQuota
           /\ children' = r.children
           /\ unsaved' = IF r.status = 200
                         THEN saveFile(unsaved, "children.json") ELSE unsaved
           /\ resp' = [NoResp EXCEPT !.status = r.status, !.msg = r.msg]
    /\ UNCHANGED auxVars
    /\ UNCHANGED <<now, sessions, schedules, nds, accrued, tickVars, req, faults>>

\* --------------------------------------------------- FASHandler.HandleAuth
\* administrator authentication that gives way to a child of the same name
AuthenticateAdmin_childFirst(user, pw) ==
    IF GetChildByUsername(children, user) # "nil" THEN "ErrInvalidCredentials"
    ELSE IF user # AdminUser THEN "ErrInvalidCredentials"
    ELSE IF pw # "good" THEN "ErrInvalidCredentials"
    ELSE "ok"

\* AuthService.AuthenticateAdmin
AuthenticateAdmin(user, pw) ==
    IF user # AdminUser THEN "ErrInvalidCredentials"
    ELSE IF pw # "good" THEN "ErrInvalidCredentials"
    ELSE "ok"

\* AuthenticateChild without the is_active test
AuthenticateChild_ignoreDisabled(ch, user, pw) ==
    LET id == GetChildByUsername(ch, user)
    IN  IF id = "nil" THEN "ErrUserNotFound"
        ELSE IF pw # "good" THEN "ErrInvalidCredentials"
        ELSE "ok"

\* AuthService.AuthenticateChild
AuthenticateChild(ch, user, pw) ==
    LET id == GetChildByUsername(ch, user)
    IN  IF id = "nil" THEN "ErrUserNotFound"
        ELSE IF pw # "good" THEN "ErrInvalidCredentials"
        ELSE IF ~ch[id].enabled THEN "disabled"
        ELSE "ok"

\* the JSON response of an administrator login that succeeded
AdminOK == [status |-> 200, msg |-> "admin", rem |-> 0, logged |-> AdminUser]

\* the response with the remaining minutes computed anew
ChildOK_reread(c, rem) ==
    [status |-> 200, msg |-> "child", rem |-> RemainingMinutes(c), logged |-> c.user]

\* the JSON response of a child login that succeeded; the form variant
\* redirects with the same remaining=%d
ChildOK(c, rem) == [status |-> 200, msg |-> "child", rem |-> rem, logged |-> c.user]

\* Administrator success: token, then Deauth(mac) when a MAC is present
AdminLogin(mac) ==
    /\ req.pc = "idle"
    /\ AuthenticateAdmin(AdminUser, "good") = "ok"
    /\ mac # NoMAC => ~ExecHangs
    /\ IF mac = NoMAC
       THEN /\ req' = Idle
            /\ nds' = nds
            /\ resp' = AdminOK
       ELSE /\ req' = [pc |-> "auth", who |-> "admin", mac |-> mac, rem |-> 0,
                    saveErr |-> FALSE]
            /\ nds' = Deauth(nds, mac, "admin")
            /\ resp' = NoResp
    /\ UNCHANGED auxVars
    /\ UNCHANGED <<now, children, sessions, schedules, accrued, tickVars,
                   faults, unsaved>>

\* the checks a child login passes after AuthenticateChild
LoginAllowed(c) ==
    /\ RemainingMinutes(c) > 0
    /\ ~ScheduleEnded(c, schedules, now)

\* the error HandleAuth ends in once administrator authentication has
\* failed, "none" when the submission passes every check
LoginError(user, pw) ==
    LET id == GetChildByUsername(children, user)
        e == AuthenticateChild(children, user, pw)
    IN  IF e # "ok" THEN e
        ELSE IF RemainingMinutes(children[id]) <= 0 THEN "no_time"
        ELSE IF ScheduleEnded(children[id], schedules, now) THEN "schedule"
        ELSE "none"

\* an error response that tells an unknown user from a wrong password
ErrorResponse_distinct(err, user, isJSON) ==
    [status |-> IF ~isJSON THEN 302
                ELSE IF err \in {"no_time", "schedule"} THEN 403
                ELSE IF err = "ErrUserNotFound" THEN 404 ELSE 401,
     msg |-> IF err = "no_time" THEN "No time remaining for today"
             ELSE IF err = "schedule"
             THEN "Internet access not allowed at this time"
             ELSE IF err = "ErrUserNotFound" THEN "User not found"
             ELSE "Invalid username or password",
     rem |-> 0,
     logged |-> user]

\* the error response: Error(w, status, msg), or the redirect to /portal
\* with error=msg
ErrorResponse(err, user, isJSON) ==
    [status |-> IF ~isJSON THEN 302
                ELSE IF err \in {"no_time", "schedule"} THEN 403 ELSE 401,
     msg |-> IF err = "no_time" THEN "No time remaining for today"
             ELSE IF err = "schedule"
             THEN "Internet access not allowed at this time"
             ELSE "Invalid username or password",
     rem |-> 0,
     logged |-> user]

\* A submission that ends in an error outcome
LoginRejected(user, pw, isJSON) ==
    /\ req.pc = "idle"
    /\ AuthenticateAdmin(user, pw) # "ok"
    /\ LoginError(user, pw) # "none"
    /\ resp' = ErrorResponse(LoginError(user, pw), user, isJSON)
    /\ UNCHANGED auxVars
    /\ UNCHANGED <<now, children, sessions, schedules, nds, accrued, tickVars,
                   req, faults, unsaved>>

\* the new Session row
NewSession(id, mac) ==
    [child |-> id, mac |-> mac, startedAt |-> now, lastTickAt |-> NoTick,
     active |-> TRUE]

\* a login that takes up the row of an earlier session of the same child
\* and device
LoginBegin_reuseRow(id, mac) ==
    /\ req.pc = "idle"
    /\ GetChild(children, id) # "nil"
    /\ AuthenticateAdmin(children[id].user, "good") # "ok"
    /\ GetChildByUsername(children, children[id].user) = id
    /\ AuthenticateChild(children, children[id].user, "good") = "ok"
    /\ LoginAllowed(children[id])
    /\ LET old == {i \in 1..Len(sessions) :
                    sessions[i].child = id /\ sessions[i].mac = mac}
       IN  IF old = {}
           THEN /\ Len(sessions) < MaxSessions
                /\ sessions' = Append(sessions, NewSession(id, mac))
                /\ accrued' = Append(accrued, 0)
           ELSE /\ sessions' = [sessions EXCEPT
                        ![CHOOSE i \in old : TRUE] = NewSession(id, mac)]
                /\ accrued' = accrued
    /\ children' = [children EXCEPT ![id] =
            IF mac # NoMAC THEN AddDevice(@, mac) ELSE @]
    /\ unsaved' = saveFile(IF mac # NoMAC /\ ~HasDevice(children[id], mac)
                           THEN saveFile(unsaved, "children.json")
                           ELSE unsaved, "sessions.json")
    /\ req' = [pc |-> "deauth", who |-> id, mac |-> mac, rem |-> 0,
               saveErr |-> \/ "sessions.json" \in faults
                           \/ /\ mac # NoMAC
                              /\ ~HasDevice(children[id], mac)
                              /\ "children.json" \in faults]
    /\ resp' = NoResp
    /\ UNCHANGED auxVars
    /\ UNCHANGED <<now, schedules, nds, tickVars, faults>>

\* Child success: the checks, device auto-discovery, SaveSession
LoginBegin(id, mac) ==
    /\ req.pc = "idle"
    /\ GetChild(children, id) # "nil"
    /\ AuthenticateAdmin(children[id].user, "good") # "ok"
    /\ GetChildByUsername(children, children[id].user) = id
    /\ AuthenticateChild(children, children[id].user, "good") = "ok"
    /\ LoginAllowed(children[id])
    /\ Len(sessions) < MaxSessions
    /\ children' = [children EXCEPT ![id] =
            IF mac # NoMAC THEN AddDevice(@, mac) ELSE @]
    /\ sessions' = Append(sessions, NewSession(id, mac))
    /\ accrued' = Append(accrued, 0)
    /\ unsaved' = saveFile(IF mac # NoMAC /\ ~HasDevice(children[id], mac)
                           THEN saveFile(unsaved, "children.json")
                           ELSE unsaved, "sessions.json")
    /\ req' = [pc |-> "deauth", who |-> id, mac |-> mac, rem |-> 0,
               saveErr |-> \/ "sessions.json" \in faults
                           \/ /\ mac # NoMAC
                              /\ ~HasDevice(children[id], mac)
                              /\ "children.json" \in faults]
    /\ resp' = NoResp
    /\ UNCHANGED auxVars
    /\ UNCHANGED <<now, schedules, nds, tickVars, faults>>

\* the request is over: a deleted child it held is garbage now
Release(id) ==
    IF id \in ChildIds /\ ~children[id].inStore /\ children[id].born
    THEN [children EXCEPT ![id] = Gone]
    ELSE children

\* a login that gives up when its Deauth(mac) has returned an error
LoginDeauth_abortOnError ==
    /\ req.pc = "deauth"
    /\ req.mac # NoMAC => ~ExecHangs
    /\ IF req.mac = NoMAC \/ ~ExecOK
       THEN /\ req' = Idle
            /\ nds' = IF req.mac = NoMAC THEN nds
                      ELSE Deauth(nds, req.mac, "child")
            /\ children' = Release(req.who)
            /\ resp' = ChildOK(children[req.who],
                               RemainingMinutes(children[req.who]))
       ELSE /\ req' = [req EXCEPT !.pc = "auth",
                                  !.rem = RemainingMinutes(children[req.who])]
            /\ nds' = Deauth(nds, req.mac, "child")
            /\ children' = children
            /\ resp' = NoResp
    /\ UNCHANGED auxVars
    /\ UNCHANGED <<now, sessions, schedules, accrued, tickVars, faults, unsaved>>

\* remainingMin := child.RemainingMinutes(); Deauth(mac) when a MAC is present
LoginDeauth ==
    /\ req.pc = "deauth"
    /\ req.mac # NoMAC => ~ExecHangs
    /\ IF req.mac = NoMAC
       THEN /\ req' = Idle
            /\ nds' = nds
            /\ children' = Release(req.who)
            /\ resp' = ChildOK(children[req.who],
                               RemainingMinutes(children[req.who]))
       ELSE /\ req' = [req EXCEPT !.pc = "auth",
                                  !.rem = RemainingMinutes(children[req.who])]
            /\ nds' = Deauth(nds, req.mac, "child")
            /\ children' = children
            /\ resp' = NoResp
    /\ UNCHANGED auxVars
    /\ UNCHANGED <<now, sessions, schedules, accrued, tickVars, faults, unsaved>>

\* Auth(mac, remainingMin) of a child, Auth(mac, 0) of an administrator
LoginAuth ==
    /\ req.pc = "auth"
    /\ ~ExecHangs
    /\ nds' = Auth(nds, req.mac, req.rem, IF req.who = "admin" THEN "admin" ELSE "child")
    /\ children' = Release(req.who)
    /\ resp' = IF req.who = "admin" THEN AdminOK
               ELSE ChildOK(children[req.who], req.rem)
    /\ req' = Idle
    /\ UNCHANGED auxVars
    /\ UNCHANGED <<now, sessions, schedules, accrued, tickVars, faults, unsaved>>

\* ------------------------------------------------------- specifications
\* One child, one device: every operation, in every interleaving.
Next ==
    \/ Advance
    \/ TickStart
    \/ TickSession
    \/ \E q \in Quotas, sc \in {NoSchedule, "s1"} : CreateChild("c1", q, sc)
    \/ DeleteChild("c1")
    \/ \E m \in Adjustments : AdjustQuota("c1", m)
    \/ \E i \in 1..MaxSessions : Kick(i)
    \/ AdminLogin("m1")
    \/ LoginBegin("c1", "m1")
    \/ LoginDeauth
    \/ LoginAuth

Spec == Init /\ [][Next]_vars

\* One child whose time an administrator takes away while it logs in and
\* the tick runs.
NextQuota ==
    \/ Advance
    \/ TickStart
    \/ TickSession
    \/ \E q \in Quotas, sc \in {NoSchedule, "s1"} : CreateChild("c1", q, sc)
    \/ AdjustQuota("c1", -1)
    \/ LoginBegin("c1", "m1")
    \/ LoginDeauth
    \/ LoginAuth

SpecQuota == Init /\ [][NextQuota]_vars

\* One child: logins and ticks, with sessions kicked and the child deleted
\* at any moment.
NextAccrual ==
    \/ Advance
    \/ TickStart
    \/ TickSession
    \/ \E q \in Quotas, sc \in {NoSchedule, "s1"} : CreateChild("c1", q, sc)
    \/ DeleteChild("c1")
    \/ Kick(1)
    \/ LoginBegin("c1", "m1")
    \/ LoginDeauth
    \/ LoginAuth

SpecAccrual == Init /\ [][NextAccrual]_vars

\* Two children created at any moment: logins and ticks over the date change.
NextFamily ==
    \/ Advance
    \/ TickStart
    \/ TickSession
    \/ \E id \in ChildIds, q \in Quotas : CreateChild(id, q, NoSchedule)
    \/ \E id \in ChildIds : LoginBegin(id, "m1")
    \/ LoginDeauth
    \/ LoginAuth

SpecFamily == Init /\ [][NextFamily]_vars

\* Two children, one of which is deleted while sessions are active.
NextOrphan ==
    \/ Advance
    \/ TickStart
    \/ TickSession
    \/ \E id \in ChildIds : CreateChild(id, 2, NoSchedule)
    \/ DeleteChild("c1")
    \/ \E id \in ChildIds : LoginBegin(id, "m1")
    \/ LoginDeauth
    \/ LoginAuth

SpecOrphan == Init /\ [][NextOrphan]_vars

\* One child logging in from two devices.
NextDevices ==
    \/ Advance
    \/ TickStart
    \/ TickSession
    \/ \E q \in Quotas : CreateChild("c1", q, NoSchedule)
    \/ \E mac \in MACs : LoginBegin("c1", mac)
    \/ LoginDeauth
    \/ LoginAuth

SpecDevices == Init /\ [][NextDevices]_vars

\* One child, while ndsctl, or ndsctl and the data directory, start to fail
\* and stay so; the child may be deleted, the first session kicked.
FaultSets == {{"ndsctl"}, Faults}

NextFaults ==
    \/ Advance
    \/ \E f \in FaultSets : faults = {} /\ Fault(f)
    \/ TickStart
    \/ TickSession
    \/ CreateChild("c1", 1, NoSchedule)
    \/ DeleteChild("c1")
    \/ Kick(1)
    \/ LoginBegin("c1", "m1")
    \/ LoginDeauth
    \/ LoginAuth

SpecFaults == Init /\ [][NextFaults]_vars

\* One child with or without a schedule reference; the schedule is deleted
\* at any moment.
NextSchedule ==
    \/ Advance
    \/ TickStart
    \/ TickSession
    \/ \E q \in Quotas, sc \in {NoSchedule, "s1"} : CreateChild("c1", q, sc)
    \/ DeleteSchedule("s1")
    \/ LoginBegin("c1", "m1")
    \/ LoginDeauth
    \/ LoginAuth

SpecSchedule == Init /\ [][NextSchedule]_vars

\* Two children over the date change: an administrator takes time away,
\* the first child logs in or is refused.
NextRollover ==
    \/ Advance
    \/ TickStart
    \/ TickSession
    \/ \E q \in Quotas : CreateChild("c1", q, NoSchedule)
    \/ CreateChild("c2", 1, NoSchedule)
    \/ AdjustQuota("c2", -1)
    \/ LoginRejected("c1", "good", TRUE)
    \/ LoginBegin("c1", "m1")
    \/ LoginDeauth
    \/ LoginAuth

SpecRollover == Init /\ [][NextRollover]_vars

\* The captive portal: every kind of credential submission, with and
\* without a MAC, up to the first login of one child that an administrator
\* renames, disables and takes the time away from.
NextPortal ==
    \/ Advance
    \/ \E sc \in {NoSchedule, "s1"} : CreateChild("c1", 1, sc)
    \/ \E user \in {"", AdminUser}, en \in BOOLEAN :
            UpdateChild("c1", user, 0, children["c1"].sched, en)
    \/ AdjustQuota("c1", -1)
    \/ \E user \in Users, pw \in Passwords, isJSON \in BOOLEAN :
            LoginRejected(user, pw, isJSON)
    \/ \E mac \in {NoMAC, "m1"} : AdminLogin(mac)
    \/ \E mac \in {NoMAC, "m1"} : sessions = <<>> /\ LoginBegin("c1", mac)
    \/ LoginDeauth
    \/ LoginAuth

SpecPortal == Init /\ [][NextPortal]_vars

\* One child whose time an administrator adjusts, statement by statement,
\* while the tick runs.
NextRace ==
    \/ Advance
    \/ TickStart
    \/ TickSession
    \/ CreateChild("c1", 2, NoSchedule)
    \/ \E m \in Adjustments : AdjustLoad("c1", m)
    \/ AdjustStore
    \/ AdjustSave
    \/ LoginBegin("c1", "m1")
    \/ LoginDeauth
    \/ LoginAuth

SpecRace == Init /\ [][NextRace]_vars

\* One child who logs in from two devices while an administrator adds and
\* removes devices, statement by statement.
NextAddDevice ==
    \/ Advance
    \/ CreateChild("c1", 2, NoSchedule)
    \/ \E mac \in MACs : AddDeviceCheck("c1", mac)
    \/ AddDeviceAppend
    \/ \E mac \in MACs : RemoveDevice("c1", mac)
    \/ \E mac \in MACs : LoginBegin("c1", mac)
    \/ LoginDeauth
    \/ LoginAuth

SpecAddDevice == Init /\ [][NextAddDevice]_vars

\* One child whom an administrator creates, updates, adjusts and extends
\* with any numbers the handlers take, and who logs in once.
NextRange ==
    \/ Advance
    \/ TickStart
    \/ TickSession
    \/ \E q \in {-1, 2} : CreateChild("c1", q, NoSchedule)
    \/ \E q \in {-1, 1} : UpdateChild("c1", "c1", q, NoSchedule, TRUE)
    \/ \E m \in Adjustments : AdjustQuota("c1", m)
    \/ \E n \in {-1, 1} : Extend(1, n)
    \/ Len(sessions) = 0 /\ LoginBegin("c1", "m1")
    \/ LoginDeauth
    \/ LoginAuth

SpecRange == Init /\ [][NextRange]_vars

\* An administrator and one child log in, with or without a MAC, while
\* ndsctl fails at times, the tick runs over the child's one minute and the
\* first session is kicked.
NextOrder ==
    \/ now < 2 /\ Advance
    \/ \E f \in {{}, {"ndsctl"}} : Fault(f)
    \/ TickStart
    \/ TickSession
    \/ CreateChild("c1", 1, NoSchedule)
    \/ Kick(1)
    \/ \E mac \in {NoMAC, "m1"} : AdminLogin(mac)
    \/ \E mac \in {NoMAC, "m1"} : LoginBegin("c1", mac)
    \/ LoginDeauth
    \/ LoginAuth

SpecOrder == Init /\ [][NextOrder]_vars

\* One child with one minute a day who logs in from one device, over three
\* slots, while the tick runs and an administrator kicks the first two
\* sessions and extends the first.
NextActive ==
    \/ now < 3 /\ Advance
    \/ TickStart
    \/ TickSession
    \/ CreateChild("c1", 1, NoSchedule)
    \/ \E i \in {1, 2} : Kick(i)
    \/ Extend(1, 1)
    \/ LoginBegin("c1", "m1")
    \/ LoginDeauth
    \/ LoginAuth

SpecActive == Init /\ [][NextActive]_vars

\* One child with one minute a day whose one session an administrator
\* extends, by a minute or by none or by less, over the days of the clock.
NextExtend ==
    \/ Advance
    \/ TickStart
    \/ TickSession
    \/ CreateChild("c1", 1, NoSchedule)
    \/ \E n \in {-1, 0, 1} : Extend(1, n)
    \/ Len(sessions) = 0 /\ LoginBegin("c1", "m1")
    \/ LoginDeauth
    \/ LoginAuth

SpecExtend == Init /\ [][NextExtend]_vars

\* Two children created and deleted while the data directory may stop
\* taking writes and the process may die and start again at any statement.
NextCrash ==
    \/ Advance
    \/ faults = {} /\ Fault({"children.json"})
    \/ \E id \in ChildIds, q \in Quotas : SaveChildLocked(id, q)
    \/ \E id \in ChildIds : DeleteChildLocked(id)
    \/ WriteFileOpen
    \/ WriteFileData
    \/ Rename
    \/ Crash
    \/ LoadAll

SpecCrash == Init /\ [][NextCrash]_vars

\* One child, logins and ticks, and the shutdown of main at any moment.
NextStop ==
    \/ Advance
    \/ TickStart
    \/ TickSession
    \/ \E q \in Quotas : CreateChild("c1", q, NoSchedule)
    \/ LoginBegin("c1", "m1")
    \/ LoginDeauth
    \/ LoginAuth
    \/ StopClose
    \/ LoopStop
    \/ StopReturn

SpecStop == Init /\ [][NextStop]_vars

\* The same, with an ndsctl that stops returning at some moment.  The
\* goroutines of the process keep running: a step of the ticker goroutine
\* or of Stop that stays possible is taken.
NextHang ==
    \/ NextStop
    \/ faults = {} /\ Fault(Hangs)

SpecHang ==
    /\ Init
    /\ [][NextHang]_vars
    /\ WF_vars(TickStart)
    /\ WF_vars(TickSession)
    /\ WF_vars(LoopStop)
    /\ WF_vars(StopReturn)

\* ---------------------------------------------- Schedule.IsAllowedNow
\* the times of day blocks start and end at
BlockTimes == {Format1504(8, 59), Format1504(9, 0), Format1504(17, 0),
               Format1504(17, 1)}

Monday == 1       \* time.Weekday: Sunday is 0

TimeBlock(day, start, end) == [day |-> day, start |-> start, end |-> end]

\* schedules: without blocks, of one Monday block (end before start
\* included), and of a Tuesday block followed by a Monday block
BlockLists ==
    {<<>>}
    \cup {<<TimeBlock(Monday, s, e)>> : s \in BlockTimes, e \in BlockTimes}
    \cup {<<TimeBlock(2, Format1504(9, 0), Format1504(17, 0)),
            TimeBlock(Monday, s, Format1504(17, 0))>> : s \in BlockTimes}

ScheduleArgs ==
    {[blocks |-> b, wd |-> wd, h |-> h, m |-> m] :
        b \in BlockLists, wd \in 0..2, h \in 0..23, m \in {0, 1, 30, 59}}

InitIsAllowed ==
    /\ InitState
    /\ arg \in ScheduleArgs
    /\ ret = NoRet

\* the call schedule.IsAllowedNow()
EvalIsAllowed ==
    /\ ~ret.done
    /\ ret' = [done |-> TRUE,
               val |-> IsAllowedNowAt(arg.blocks, arg.wd, arg.h, arg.m)]
    /\ UNCHANGED <<now, children, sessions, schedules, nds, accrued, tickVars,
                   req, resp, faults, unsaved, adminVars, diskVars, loopVars, arg>>

SpecIsAllowed == InitIsAllowed /\ [][EvalIsAllowed]_vars

\* ------------------------------------------------------------- handshake
InitHandshake ==
    /\ InitState
    /\ arg \in FASArgs \cup RawArgs \cup AuthArgs
    /\ ret = NoRet

\* HandleFAS serves the request the gateway redirected from RemoteIP
EvalHandleFAS ==
    /\ ~ret.done
    /\ arg.op \in {"fas", "raw"}
    /\ ret' = [done |-> TRUE,
               out |-> HandleFAS(FASParam(arg), RemoteIP, Bytes(arg.arp))]
    /\ UNCHANGED <<now, children, sessions, schedules, nds, accrued, tickVars,
                   req, resp, faults, unsaved, adminVars, diskVars, loopVars, arg>>

\* HandleAuth serves the login form of the child "Ann B", 120 minutes left
EvalHandleAuth ==
    /\ ~ret.done
    /\ arg.op = "auth"
    /\ ret' = [done |-> TRUE,
               out |-> HandleAuthRedirect(arg.form, arg.arp, arg.outcome,
                                          Bytes("Ann B"), 120)]
    /\ UNCHANGED <<now, children, sessions, schedules, nds, accrued, tickVars,
                   req, resp, faults, unsaved, adminVars, diskVars, loopVars, arg>>

NextHandshake == EvalHandleFAS \/ EvalHandleAuth

SpecHandshake == InitHandshake /\ [][NextHandshake]_vars

\* ---------------------------------------------------------- normalizeMAC
\* twelve hexadecimal digits, in lower case
HexTexts == {"aabbccddeeff", "0123456789ab", "a1b2c3d4e5f6", "000000000000"}

\* the separators of the written forms and the digits between two of them
Separators == {[sep |-> <<>>, group |-> 12], [sep |-> <<58>>, group |-> 2],
               [sep |-> <<45>>, group |-> 2], [sep |-> <<46>>, group |-> 2],
               [sep |-> <<46>>, group |-> 4]}

\* the digits at positions p with letter(p) in upper case
Cased(t, letters) ==
    [i \in 1..Len(t) |-> IF t[i] >= 97 /\ t[i] <= 122 /\ (i % 2) \in letters
                         THEN t[i] - 32 ELSE t[i]]

\* a MAC address of 12 digits as it is written with a separator
WrittenMAC(a) ==
    LET t == Cased(Bytes(a.hex), a.upper)
        n == 12 \div a.group
    IN  Join([k \in 1..n |-> SubSeq(t, a.group * (k - 1) + 1, a.group * k)],
             a.sep)

\* texts that are no 12-digit MAC address, or one with separators mixed
OtherTexts ==
    {"", "aabbcc", "AA:BB:CC:DD:EE:F", "aa:bb:cc:dd:ee:ff:00", "zz:zz:zz:zz:zz:zz",
     "AA-BB:CC.DD-EE:FF", "::::", "a:b-c.d", "aabbccddeeff0", "unknown",
     "AABB.CCDD.EE", "aa:bb:cc:dd:ee:ff "}

MacArgs ==
    {[op |-> "mac", hex |-> h, sep |-> f.sep, group |-> f.group, upper |-> u] :
        h \in HexTexts, f \in Separators, u \in {{}, {0, 1}, {1}}}
    \cup {[op |-> "text", text |-> t] : t \in OtherTexts}

InitNormalize ==
    /\ InitState
    /\ arg \in MacArgs
    /\ ret = NoRet

\* the call normalizeMAC(mac)
EvalNormalizeMAC ==
    /\ ~ret.done
    /\ ret' = [done |-> TRUE,
               out |-> normalizeMAC(IF arg.op = "mac" THEN WrittenMAC(arg)
                                    ELSE Bytes(arg.text))]
    /\ UNCHANGED <<now, children, sessions, schedules, nds, accrued, tickVars,
                   req, resp, faults, unsaved, adminVars, diskVars, loopVars, arg>>

SpecNormalize == InitNormalize /\ [][EvalNormalizeMAC]_vars

\* ------------------------------------------------------------ properties
\* The step is the loop body of tick() for the session with index i.
TickStepOn(i) ==
    /\ tickPc = "run"
    /\ tickQueue # <<>>
    /\ Head(tickQueue) = i
    /\ tickQueue' = Tail(tickQueue)

\* The instant a session's elapsed time is measured from.
Base(s) == IF s.lastTickAt = NoTick THEN s.startedAt ELSE s.lastTickAt

TickDeauth == [kind |-> "deauth", min |-> 0, by |-> "tick", ok |-> TRUE]

Rows == 1..Len(sessions)

\* C1: at most one session with active=true exists per MAC.
C1_OneActivePerMAC ==
    \A i, j \in Rows :
        (i # j /\ sessions[i].active /\ sessions[j].active /\ sessions[i].mac # NoMAC)
            => sessions[i].mac # sessions[j].mac

\* C2: when the tick visits an active session whose child exists and the
\* child's used_today_min >= daily_quota_min after the accrual, the same step
\* leaves the session inactive with a deauthorize issued for its MAC; and the
\* snapshot a tick starts with holds every active session, so no session
\* stays active through a whole tick that sees its child at quota.
C2_QuotaRevokedInTick ==
    [][/\ \A i \in Rows :
            (/\ TickStepOn(i)
             /\ sessions[i].active
             /\ children[sessions[i].child].inStore
             /\ children'[sessions[i].child].used >= children'[sessions[i].child].quota)
            => (/\ ~sessions'[i].active
                /\ nds'[sessions[i].mac] = TickDeauth)
       /\ (tickPc = "idle" /\ tickPc' = "run")
            => \A i \in Rows : sessions[i].active
                    => \E k \in 1..Len(tickQueue') : tickQueue'[k] = i
      ]_vars

\* C2 witness: a tick has revoked a session of a child that has no schedule
\* and is at quota.
C2_Witness ==
    \E i \in Rows :
        /\ ~sessions[i].active
        /\ nds[sessions[i].mac] = TickDeauth
        /\ children[sessions[i].child].inStore
        /\ children[sessions[i].child].sched = NoSchedule
        /\ children[sessions[i].child].used >= children[sessions[i].child].quota
        /\ accrued[i] >= 1

\* C3: the child-login path never calls authorize with session_minutes = 0.
C3_ChildAuthPositive ==
    \A m \in MACs :
        (nds[m].kind = "auth" /\ nds[m].by = "child") => nds[m].min > 0

\* C4: once authorize(m, unlimited) has been issued for an administrator, no
\* tick issues a deauthorize for m.  (With no login in flight, the
\* administrator's authorize is the last call made for m, and every session
\* row for m is older than it.)
C4_AdminNeverRevokedByTick ==
    [][\A m \in MACs :
          (req.pc = "idle" /\ nds[m].kind = "auth" /\ nds[m].by = "admin")
              => nds'[m] # TickDeauth
      ]_vars

\* C5: while a child's last_reset_date stays the same its used_today_min
\* never decreases; when the date changes it is reset to exactly 0, to the
\* date of the tick; and a tick adds minutes only under the tick's date.
C5_UsedMonotoneWithinDay ==
    [][\A id \in ChildIds :
          (children[id].inStore /\ children'[id].inStore) =>
              /\ IF children'[id].lastReset = children[id].lastReset
                 THEN children'[id].used >= children[id].used
                 ELSE /\ children'[id].used = 0
                      /\ children'[id].lastReset = DateOf(now)
              /\ children'[id].used > children[id].used
                    => children[id].lastReset = DateOf(tickNow)
      ]_vars

\* C5 witness: a child whose usage was reset at the date change after a
\* session had accrued minutes for it on the day before.
C5_Witness ==
    \E i \in Rows :
        /\ children[sessions[i].child].inStore
        /\ children[sessions[i].child].lastReset = 1
        /\ sessions[i].startedAt < DaySlots
        /\ accrued[i] = 2
        /\ children[sessions[i].child].used = 1

\* C6: last_tick_at changes only in the tick step that adds m >= 1 minutes
\* to the child, m the truncated minutes since last_tick_at or else
\* started_at; a step with m = 0 changes neither usage nor last_tick_at.
C6_LastTickOnlyWithAccrual ==
    [][\A i \in Rows :
          LET s == sessions[i]
              m == (tickNow - Base(s)) \div SlotsPerMin
          IN  /\ sessions'[i].lastTickAt # s.lastTickAt =>
                    /\ TickStepOn(i)
                    /\ m >= 1
                    /\ sessions'[i].lastTickAt = tickNow
                    /\ children'[s.child].used = children[s.child].used + m
              /\ (TickStepOn(i) /\ m < 1) =>
                    /\ children' = children
                    /\ sessions'[i].lastTickAt = s.lastTickAt
      ]_vars

\* C6 witness: a session whose last_tick_at was set by an accrual.
C6_Witness ==
    \E i \in Rows :
        /\ sessions[i].lastTickAt # NoTick
        /\ accrued[i] >= 1
        /\ sessions[i].active

\* C7: a tick that visits an active session once a whole minute has passed
\* since the last accrual (or the start) adds at least 1 minute; a tick that
\* sees less than a minute leaves the instant the time is measured from
\* where it was, so the time keeps accumulating.
C7_SubMinuteAccumulates ==
    [][\A i \in Rows :
          (/\ TickStepOn(i)
           /\ sessions[i].active
           /\ children[sessions[i].child].inStore) =>
              IF tickNow - Base(sessions[i]) >= SlotsPerMin
              THEN /\ accrued'[i] >= accrued[i] + 1
                   /\ children'[sessions[i].child].used
                        >= children[sessions[i].child].used + 1
              ELSE Base(sessions'[i]) = Base(sessions[i])
      ]_vars

\* C7 witness: a tick that saw a minute and a half added one minute, and a
\* later tick is about to visit the session half a minute after that.
C7_Witness ==
    \E i \in Rows :
        /\ accrued[i] = 1
        /\ sessions[i].lastTickAt = sessions[i].startedAt + SlotsPerMin + 1
        /\ sessions[i].active
        /\ children[sessions[i].child].inStore
        /\ tickPc = "run"
        /\ Head(tickQueue) = i
        /\ tickNow = sessions[i].lastTickAt + 1

\* C8: the minutes added on behalf of a session never exceed the whole
\* minutes between its started_at and the latest tick.
C8_NeverOvercounts ==
    \A i \in Rows :
        IF sessions[i].lastTickAt = NoTick
        THEN accrued[i] = 0
        ELSE /\ accrued[i] * SlotsPerMin <= sessions[i].lastTickAt - sessions[i].startedAt
             /\ sessions[i].lastTickAt <= now

\* C8 witness: a session charged two minutes over two minutes.
C8_Witness ==
    \E i \in Rows :
        /\ accrued[i] = 2
        /\ sessions[i].lastTickAt = sessions[i].startedAt + 2 * SlotsPerMin

\* C9: a second tick at the same instant changes nothing in the Store and
\* issues no deauthorize.
C9_TickIdempotent ==
    (tickPc = "idle" /\ req.pc = "idle" /\ C1_OneActivePerMAC) =>
        LET s1 == TickFull(Store, schedules, now)
            s2 == TickFull([s1 EXCEPT !.deauthed = {}], schedules, now)
        IN  /\ s2.children = s1.children
            /\ s2.sessions = s1.sessions
            /\ s2.deauthed = {}

\* C10: a tick that visits an active session whose child is not in the
\* Store issues a deauthorize for its MAC, marks the row inactive and keeps
\* it, and adds no usage to any child.
C10_OrphanRevoked ==
    [][\A i \in Rows :
          (/\ TickStepOn(i)
           /\ sessions[i].active
           /\ ~children[sessions[i].child].inStore) =>
              /\ sessions' = [sessions EXCEPT ![i].active = FALSE]
              /\ nds'[sessions[i].mac] = TickDeauth
              /\ children' = children
              /\ accrued' = accrued
      ]_vars

\* C10 witness: a revoked session of a deleted child none of whose sessions
\* was ever charged, so that no quota was reached.
C10_Witness ==
    \E i \in Rows :
        /\ ~sessions[i].active
        /\ ~children[sessions[i].child].inStore
        /\ nds[sessions[i].mac] = TickDeauth
        /\ \A j \in Rows : sessions[j].child = sessions[i].child => accrued[j] = 0

\* The minutes a tick at instant t sees for session s.
Elapsed(s, t) == (t - Base(s)) \div SlotsPerMin

\* The schedule sch has a block for the instant t (weekday and minute).
BlockAt(sch, t) ==
    \E k \in 1..Len(sch.blocks) :
        /\ sch.blocks[k].day = DateOf(t) % 7
        /\ sch.blocks[k].start <= (t % DaySlots) \div SlotsPerMin
        /\ (t % DaySlots) \div SlotsPerMin <= sch.blocks[k].end

\* The child record c references a schedule of the Store that has no block
\* for the instant t.
Disallowed(c, t) ==
    /\ c.sched # NoSchedule
    /\ schedules[c.sched].inStore
    /\ ~BlockAt(schedules[c.sched], t)

\* C11: a tick visits every session that was active when it started: the
\* snapshot holds every active session, a step of the loop removes the head
\* of the snapshot and nothing else, whatever failed before; and the session
\* visited gets its accrual, its quota check and its schedule check, also
\* when ndsctl or a write has failed for an earlier session or fails now.
C11_FailuresIsolatedPerSession ==
    [][/\ (tickPc = "idle" /\ tickPc' = "run")
            => \A i \in Rows : sessions[i].active
                    => \E k \in 1..Len(tickQueue') : tickQueue'[k] = i
       /\ tickPc = "run"
            => /\ tickQueue' \in {tickQueue, Tail(tickQueue)}
               /\ tickPc' = "idle" => tickQueue' = <<>> /\ Len(tickQueue) = 1
       /\ \A i \in Rows :
            (/\ TickStepOn(i)
             /\ sessions[i].active
             /\ children[sessions[i].child].inStore) =>
                LET s == sessions[i]
                    m == IF Elapsed(s, tickNow) > 0 THEN Elapsed(s, tickNow) ELSE 0
                    c == children'[s.child]
                IN  /\ accrued'[i] = accrued[i] + m
                    /\ c.used = children[s.child].used + m
                    /\ c.used >= c.quota =>
                            /\ ~sessions'[i].active
                            /\ nds'[s.mac].kind = "deauth"
                            /\ nds'[s.mac].by = "tick"
                    /\ (c.used < c.quota /\ Disallowed(c, now)) =>
                            ~sessions'[i].active
                    /\ (c.used < c.quota /\ ~Disallowed(c, now)) =>
                            sessions'[i].active
      ]_vars

\* C11 witness: a tick has revoked the first session, with the deauthorize
\* failed and the write of sessions.json failed, and goes on to the second
\* session, which has a minute to be charged.
C11_Witness ==
    /\ tickPc = "run"
    /\ tickQueue = <<2>>
    /\ ~sessions[1].active
    /\ sessions[1].lastTickAt = tickNow
    /\ nds[sessions[1].mac] = [TickDeauth EXCEPT !.ok = FALSE]
    /\ "sessions.json" \in unsaved
    /\ sessions[2].active
    /\ children[sessions[2].child].inStore
    /\ Elapsed(sessions[2], tickNow) >= 1

\* C12: a session goes from active to inactive only in a step that makes a
\* deauthorize call for its MAC, from the tick or from a kick; and a step in
\* which that call is made leaves the session inactive in the Store whether
\* the call succeeded or failed.
C12_InactiveEvenIfDeauthFails ==
    [][/\ \A i \in Rows :
            (sessions[i].active /\ ~sessions'[i].active) =>
                /\ nds'[sessions[i].mac].kind = "deauth"
                /\ nds'[sessions[i].mac].by \in {"tick", "kick"}
                /\ nds'[sessions[i].mac].ok = ExecOK
       /\ \A m \in MACs :
            (/\ nds'[m] # nds[m]
             /\ nds'[m].kind = "deauth"
             /\ nds'[m].by \in {"tick", "kick"}) =>
                \E i \in Rows :
                    /\ sessions[i].mac = m
                    /\ nds'[m].by = "tick" => TickStepOn(i)
                    /\ ~sessions'[i].active
                    /\ \A j \in Rows \ {i} : sessions'[j] = sessions[j]
      ]_vars

\* C12 witness: the tick visited the only session, which is inactive now,
\* and its deauthorize call failed.
C12_Witness ==
    /\ Len(sessions) = 1
    /\ ~sessions[1].active
    /\ accrued[1] >= 1
    /\ nds[sessions[1].mac] = [TickDeauth EXCEPT !.ok = FALSE]

\* C13: when the tick visits an active session whose child is under quota
\* after the accrual: if the child references a schedule of the Store that
\* has no block for the instant at which the tick evaluates it, the step
\* issues a deauthorize for the session's MAC and marks the session
\* inactive; if the schedule has such a block, or the child references no
\* schedule, the step leaves the session active and makes no call for it.
C13_ScheduleCheckedInTick ==
    [][\A i \in Rows :
          LET s == sessions[i]
              c == children'[s.child]
          IN  (/\ TickStepOn(i)
               /\ s.active
               /\ children[s.child].inStore
               /\ c.used < c.quota
               /\ c.sched # NoSchedule => schedules[c.sched].inStore) =>
                  IF Disallowed(c, now)
                  THEN /\ ~sessions'[i].active
                       /\ nds'[s.mac] = TickDeauth
                  ELSE /\ sessions'[i].active
                       /\ nds'[s.mac] = nds[s.mac]
      ]_vars

\* C13 witness: the tick has revoked a session of a child that is under
\* quota, because the schedule the child references has ended.
C13_Witness ==
    \E i \in Rows :
        LET c == children[sessions[i].child]
        IN  /\ ~sessions[i].active
            /\ nds[sessions[i].mac] = TickDeauth
            /\ c.inStore
            /\ c.used < c.quota
            /\ c.sched # NoSchedule
            /\ schedules[c.sched].inStore
            /\ accrued[i] >= 1

\* C14: when the tick visits an active session whose child references a
\* schedule id that is not in the Store, the step issues a deauthorize for
\* the session's MAC and marks the session inactive.
C14_MissingScheduleRevoked ==
    [][\A i \in Rows :
          LET s == sessions[i]
              c == children[s.child]
          IN  (/\ TickStepOn(i)
               /\ s.active
               /\ c.inStore
               /\ c.sched # NoSchedule
               /\ ~schedules[c.sched].inStore) =>
                  /\ ~sessions'[i].active
                  /\ nds'[s.mac] = TickDeauth
      ]_vars

\* Some child of the Store has a last_reset_date other than the date of t.
Stale(t) ==
    \E k \in ChildIds : children[k].inStore /\ children[k].lastReset # DateOf(t)

\* C15: a child's last_reset_date changes only in the step that starts a
\* tick, before any session of that tick is visited, and only when some
\* child's date differs from today; that step sets used_today_min to 0 and
\* last_reset_date to today for every child and changes nothing else in the
\* child records; a tick that starts with every date equal to today
\* changes no child record.
C15_RolloverResetsAll ==
    [][/\ \A id \in ChildIds :
            (/\ children[id].inStore
             /\ children'[id].inStore
             /\ children'[id].lastReset # children[id].lastReset) =>
                /\ tickPc = "idle"
                /\ Stale(now)
                /\ children' = [k \in ChildIds |->
                        IF children[k].inStore
                        THEN [children[k] EXCEPT !.used = 0,
                                                 !.lastReset = DateOf(now)]
                        ELSE children[k]]
       /\ (tickPc = "idle" /\ tickPc' = "run") =>
            IF Stale(now)
            THEN \A k \in ChildIds : children[k].inStore =>
                    /\ children'[k].used = 0
                    /\ children'[k].lastReset = DateOf(now)
            ELSE children' = children
      ]_vars

\* C15 witness: a tick has just started on the second day; the first child
\* was charged a minute on the first day and has no usage now, and the
\* second child, whatever its date was, has none either.
C15_Witness ==
    /\ tickPc = "run"
    /\ tickQueue = ListSessions(sessions)
    /\ tickNow = now
    /\ DateOf(now) = 1
    /\ \E i \in Rows :
        /\ sessions[i].child = "c1"
        /\ sessions[i].active
        /\ accrued[i] = 1
        /\ sessions[i].lastTickAt < DaySlots
    /\ \A k \in ChildIds :
        /\ children[k].inStore
        /\ children[k].used = 0
        /\ children[k].lastReset = 1

\* C16: a submission is refused for lack of remaining time only when the
\* child's last_reset_date is today's date; usage stored under an earlier
\* date counts as 0.
C16_StaleUsageNotRefused ==
    (resp.msg = "No time remaining for today") =>
        LET id == GetChildByUsername(children, resp.logged)
        IN  id # "nil" => children[id].lastReset = DateOf(now)

\* C17: a child login that passes its checks appends one Session, active,
\* started now and never ticked, for the child and the MAC of the request;
\* the minutes it then reads are daily_quota_min - used_today_min of the
\* child (0 when that is negative); the authorize call for the MAC and the
\* response both carry the minutes read; and a tick that visits the session,
\* never ticked, once at least that many minutes have elapsed leaves it
\* inactive with a deauthorize issued.
C17_LoginAuthorizesRemaining ==
    [][/\ Len(sessions') # Len(sessions) =>
            /\ req.pc = "idle"
            /\ req'.pc = "deauth"
            /\ sessions' = Append(sessions,
                    [child |-> req'.who, mac |-> req'.mac, startedAt |-> now,
                     lastTickAt |-> NoTick, active |-> TRUE])
       /\ (req.pc = "deauth" /\ req'.pc = "auth") =>
            LET c == children[req.who]
            IN  /\ req'.rem = IF c.quota >= c.used THEN c.quota - c.used ELSE 0
                /\ req'.who = req.who
                /\ req'.mac = req.mac
       /\ (req.pc = "auth" /\ req.who # "admin" /\ req'.pc = "idle") =>
            /\ nds'[req.mac] = [kind |-> "auth", min |-> req.rem,
                                by |-> "child", ok |-> TRUE]
            /\ resp'.status = 200
            /\ resp'.msg = "child"
            /\ resp'.rem = req.rem
       /\ \A i \in Rows :
            LET s == sessions[i]
                c == children[s.child]
            IN  (/\ TickStepOn(i)
                 /\ s.active
                 /\ s.lastTickAt = NoTick
                 /\ c.inStore
                 /\ Elapsed(s, tickNow) >= c.quota - c.used) =>
                    /\ ~sessions'[i].active
                    /\ nds'[s.mac] = TickDeauth
      ]_vars

\* C17 witness: a child with quota 2 and nothing used has logged in; the
\* MAC is authorized for 2 minutes and the response says 2.
C17_Witness ==
    /\ resp = [status |-> 200, msg |-> "child", rem |-> 2, logged |-> "c1"]
    /\ nds["m1"] = [kind |-> "auth", min |-> 2, by |-> "child", ok |-> TRUE]
    /\ children["c1"].quota = 2
    /\ children["c1"].used = 0
    /\ sessions # <<>>
    /\ sessions[Len(sessions)].active
    /\ sessions[Len(sessions)].lastTickAt = NoTick
    /\ sessions[Len(sessions)].mac = "m1"

\* What the client sees of a response; the rest is written to the log.
Visible(r) == [status |-> r.status, msg |-> r.msg, rem |-> r.rem]

\* The response written is an error outcome of a credential submission.
IsError(r) == r.status # 0 /\ r.msg \notin {"admin", "child"}

\* C18: a step that writes an error response changes nothing else: no
\* Session, no device, no ndsctl call, no write to the Store; and a Session
\* is appended or a device registered for a child only when the child is in
\* the Store and enabled, has remaining minutes and no schedule of the Store
\* that disallows access now.
C18_RejectedLoginChangesNothing ==
    [][/\ IsError(resp') =>
            UNCHANGED <<children, sessions, schedules, nds, accrued, unsaved, req>>
       /\ \A id \in ChildIds :
            (\/ /\ Len(sessions') > Len(sessions)
                /\ sessions'[Len(sessions')].child = id
             \/ Len(children'[id].devices) > Len(children[id].devices)) =>
                /\ children[id].inStore
                /\ children[id].enabled
                /\ children[id].quota - children[id].used > 0
                /\ ~Disallowed(children[id], now)
      ]_vars

\* C18 witness: the child, who has no time left, was refused; it has no
\* device and there is no session.
C18_Witness ==
    /\ resp.msg = "No time remaining for today"
    /\ resp.logged = "c1"
    /\ children["c1"].inStore
    /\ children["c1"].enabled
    /\ children["c1"].used >= children["c1"].quota
    /\ children["c1"].devices = <<>>
    /\ sessions = <<>>
    /\ nds["m1"] = NoCall

\* C19: in every state, a submission under a username no child has and a
\* submission under a child's username with a wrong password get the same
\* status, message and (in the form variant) redirect error.
C19_CredentialFailureUniform ==
    \A u, v \in Users, pw \in Passwords, isJSON \in BOOLEAN :
        (/\ GetChildByUsername(children, u) = "nil"
         /\ GetChildByUsername(children, v) # "nil"
         /\ AuthenticateAdmin(u, pw) # "ok"
         /\ AuthenticateAdmin(v, "bad") # "ok") =>
            /\ LoginError(u, pw) # "none"
            /\ LoginError(v, "bad") # "none"
            /\ Visible(ErrorResponse(LoginError(u, pw), u, isJSON))
                = Visible(ErrorResponse(LoginError(v, "bad"), v, isJSON))

\* C19 witness: the child, enabled and under its own name, has been
\* answered 401: it gave a wrong password.
C19_Witness ==
    /\ resp.status = 401
    /\ resp.logged = "c1"
    /\ children["c1"].inStore
    /\ children["c1"].user = "c1"
    /\ children["c1"].enabled

\* C20: a submission with the administrator's credentials takes the
\* administrator path also when a child has the same username; with a MAC it
\* deauthorizes and then authorizes the MAC with session_minutes = 0, without
\* a MAC it makes no ndsctl call; either way it answers with the token and
\* changes no Session and no child.
C20_AdminFirstAndUnlimited ==
    [][/\ (req.pc = "idle" /\ req'.pc = "auth") =>
            /\ req'.who = "admin"
            /\ req'.mac \in MACs
            /\ nds'[req'.mac] = [kind |-> "deauth", min |-> 0, by |-> "admin",
                                 ok |-> ExecOK]
            /\ UNCHANGED <<children, sessions, accrued, unsaved>>
       /\ (req.pc = "auth" /\ req.who = "admin" /\ req'.pc = "idle") =>
            /\ nds'[req.mac] = [kind |-> "auth", min |-> 0, by |-> "admin",
                                ok |-> ExecOK]
            /\ Visible(resp') = [status |-> 200, msg |-> "admin", rem |-> 0]
            /\ UNCHANGED <<children, sessions, accrued, unsaved>>
       /\ (req.pc = "idle" /\ resp'.msg = "admin") =>
            UNCHANGED <<children, sessions, accrued, unsaved, nds, req>>
       /\ (req.pc = "idle" /\ req'.pc = "deauth") =>
            children[req'.who].user # AdminUser
       /\ \A m \in MACs :
            (nds'[m].kind = "auth" /\ nds'[m].by = "admin") => nds'[m].min = 0
      ]_vars

\* C20 witness: the administrator has logged in from m1 and is authorized
\* without limit, while a child that bears the administrator's username has
\* no time left.
C20_Witness ==
    /\ resp.msg = "admin"
    /\ nds["m1"] = [kind |-> "auth", min |-> 0, by |-> "admin", ok |-> TRUE]
    /\ children["c1"].inStore
    /\ children["c1"].enabled
    /\ children["c1"].user = AdminUser
    /\ RemainingMinutes(children["c1"]) = 0
    /\ sessions = <<>>

\* C21: when SaveSession, or SaveChild for the newly registered device,
\* fails during a child login, the request fails: no authorize call is
\* issued for it and no success response is written.
C21_FailedSaveFailsLogin ==
    [][(req.pc # "idle" /\ req.who \in ChildIds /\ req.saveErr)
          => /\ \A m \in MACs : nds'[m].kind = "auth" => nds'[m] = nds[m]
             /\ resp'.status # 200
      ]_vars

\* C22: no update is lost between the tick's accrual and an administrator's
\* adjustment of the same child: the adjustment's write applies the
\* adjustment to the usage the record holds at that moment, the minutes a
\* tick has added since the adjustment's read included.
C22_NoLostUpdate ==
    [][(adj.pc = "store" /\ adj'.pc = "save")
          => children'[adj.id].used = children[adj.id].used - adj.minutes
      ]_vars

\* C23: the Store does not expose its records: the write a caller makes to
\* the record GetChild gave it changes nothing of what the Store returns to
\* other readers; only the caller's SaveChild does.
C23_ChangeInvisibleBeforeSave ==
    [][(adj.pc = "store" /\ adj'.pc = "save") => children' = children]_vars

\* C24: a Store operation that returns success has put the whole collection,
\* as marshalled, at the file's path; the file at the path is always absent
\* or complete and changes only to the complete new snapshot; so the
\* collection loaded after the process has died at any statement is the
\* previous or the new snapshot.
C24_CrashAtomicSave ==
    [][LET f == "children.json"
       IN  /\ (io.pc = "rename" /\ io'.pc = "idle" /\ f \notin unsaved')
                => disk'[f] = Written(Marshal(children))
           /\ disk'[f] # disk[f] => disk'[f] = Written(io.data)
           /\ ~disk'[f].exists \/ disk'[f].complete
           /\ (io.pc = "down" /\ io'.pc = "idle")
                => /\ Marshal(children') = disk[f].data
                   /\ ~disk[f].exists \/ disk[f].complete
      ]_vars

\* C24 witness: the process has died while os.WriteFile was writing the
\* temporary file of a later save, and has started again with the
\* collection of the last save that returned success.
C24_Witness ==
    /\ io.pc = "idle"
    /\ faults = {}
    /\ disk[TmpPath("children.json")] = Partial
    /\ disk["children.json"].complete
    /\ DOMAIN disk["children.json"].data # {}
    /\ Marshal(children) = disk["children.json"].data

\* C25: once Stop has closed stopChan, no new tick starts.
C25_NoTickAfterStop ==
    [][stopChan => ~(tickPc = "idle" /\ tickPc' = "run")]_vars

\* C26: Stop does not return while a tick is in progress: when Stop has
\* returned the goroutine has ended, no tick is executing, and no step
\* after it is a step of a tick (no tick position changes, no deauthorize
\* by the tick, no daily reset).
C26_StopWaitsForTick ==
    [][stopPc' = "returned"
          => /\ tickPc' = "idle"
             /\ doneChan'
             /\ stopPc = "returned"
                    => /\ UNCHANGED tickVars
                       /\ \A m \in MACs : nds'[m].by = "tick" => nds'[m] = nds[m]
                       /\ \A id \in ChildIds :
                              (children[id].inStore /\ children'[id].inStore)
                                  => children'[id].lastReset = children[id].lastReset
      ]_vars

\* C26 witness: Stop has returned after it had to wait for a tick that
\* charged a session at the instant of the shutdown.
C26_Witness ==
    /\ stopPc = "returned"
    /\ \E i \in Rows : sessions[i].lastTickAt = now /\ now > 0

\* C27: a deauthorize call of a tick that never returns does not block the
\* loop for ever: the tick finishes, and a Stop that waits returns.
C27_HungCallDoesNotBlock ==
    /\ (tickPc = "hung") ~> (tickPc = "idle")
    /\ (tickPc = "hung" /\ stopPc = "wait") ~> (stopPc = "returned")

\* the minute of the day an "HH:MM" string names
MinuteOfDay(t) == ((t[1] - 48) * 10 + (t[2] - 48)) * 60 + (t[4] - 48) * 10 + (t[5] - 48)

\* C28: IsAllowedNow is true exactly when some block has the instant's
\* weekday and start <= HH:MM <= end, both ends included; on "HH:MM"
\* strings that is the order of the times of day.  A Monday 09:00-17:00
\* block allows Monday 09:00 and 17:00 and not 08:59 and 17:01; a block that
\* ends before it starts never matches; no blocks, no access.
C28_InclusiveStringInterval ==
    ret.done =>
        LET t == arg.h * 60 + arg.m
            office == <<TimeBlock(Monday, Format1504(9, 0), Format1504(17, 0))>>
        IN  /\ ret.val = \E i \in 1..Len(arg.blocks) :
                            /\ arg.blocks[i].day = arg.wd
                            /\ MinuteOfDay(arg.blocks[i].start) <= t
                            /\ t <= MinuteOfDay(arg.blocks[i].end)
            /\ (arg.blocks = office /\ arg.wd = Monday) =>
                    /\ t \in {9 * 60, 17 * 60} => ret.val
                    /\ t \in {8 * 60 + 59, 17 * 60 + 1} => ~ret.val
            /\ (\A i \in 1..Len(arg.blocks) :
                    StrLess(arg.blocks[i].end, arg.blocks[i].start)) => ~ret.val

\* C28 witness: the Monday 09:00-17:00 block evaluated on Monday at 17:00.
C28_Witness ==
    /\ ret.done
    /\ ret.val
    /\ arg.blocks = <<TimeBlock(Monday, Format1504(9, 0), Format1504(17, 0))>>
    /\ arg.wd = Monday
    /\ arg.h = 17
    /\ arg.m = 0

\* the colon-delimited lowercase form of each MAC text
Canonical ==
    ("" :> "") @@ ("AA:BB:CC:DD:EE:FF" :> "aa:bb:cc:dd:ee:ff")
        @@ ("aa-bb-cc-dd-ee-ff" :> "aa:bb:cc:dd:ee:ff")
        @@ ("11:22:33:44:55:66" :> "11:22:33:44:55:66")

\* each text with "%XX" as its byte and '+' as a space where every '%'
\* starts a "%XX", as it is otherwise
QueryDecoded ==
    ("" :> "") @@ ("Home%20Net" :> "Home Net")
        @@ ("http://example.com/" :> "http://example.com/")
        @@ ("http://example.com/%3Fq=a+b" :> "http://example.com/?q=a b")
        @@ ("http://example.com/100%" :> "http://example.com/100%")

\* the example payload
Example ==
    Bytes("clientmac=AA:BB:CC:DD:EE:FF, clientip=10.0.0.5, originurl=http://example.com/(null)")

\* the fields of the example payload
ExampleFAS ==
    [NoFAS EXCEPT !.ClientMAC = Bytes("aa:bb:cc:dd:ee:ff"),
                  !.ClientIP = Bytes("10.0.0.5"),
                  !.OriginURL = Bytes("http://example.com/")]

\* the fields of a payload whose gateway name and origin URL are to come
\* out as gw and url: a "(null)" value is no value, and without a MAC in
\* the payload the ARP table gives it, for the payload's address or else
\* the request's
Recovered(a, gw, url) ==
    [HID |-> Bytes(a.hid),
     ClientMAC |-> Bytes(Canonical[IF a.mac # "" THEN a.mac ELSE a.arp]),
     ClientIP |-> IF a.ip = "" /\ a.mac = "" THEN RemoteIP ELSE Bytes(a.ip),
     GatewayName |-> Bytes(gw),
     GatewayHash |-> <<>>,
     AuthDir |-> IF a.authdir = "(null)" THEN <<>> ELSE Bytes(a.authdir),
     OriginURL |-> Bytes(url)]

\* C29 as stated: the example payload yields its three fields and nothing
\* else, and every payload of recognized keys joined by ", " yields each
\* present value unchanged (the MAC canonicalized), whatever "(null)"
\* artifacts and trailing separators follow it.
C29_ValuesUnchanged ==
    (ret.done /\ arg.op = "fas" /\ Len(Payload(arg)) # 0 /\ arg.noise = <<>>)
        => /\ ret.out.fas = Recovered(arg, arg.gw, arg.url)
           /\ Payload(arg) = Example => ret.out.fas = ExampleFAS

\* C29, amended: as stated, but the gateway name, the origin URL and the
\* authdir come out query-unescaped when every '%' in them starts a "%XX"
\* ("%XX" as its byte, '+' as a space), and bytes outside printable ASCII
\* are dropped from every value.
C29_RoundTrip ==
    (ret.done /\ arg.op = "fas" /\ Len(Payload(arg)) # 0)
        => /\ ret.out.fas = Recovered(arg, QueryDecoded[arg.gw], QueryDecoded[arg.url])
           /\ Payload(arg) = Example => ret.out.fas = ExampleFAS

\* C29 witness: the example payload, sent without its padding, has been
\* decoded to its three fields.
C29_Witness ==
    /\ ret.done
    /\ arg.op = "fas"
    /\ Payload(arg) = Example
    /\ arg.transport = "nopad"
    /\ ret.out.fas = ExampleFAS
    /\ ret.out.status = 302

\* C30: every byte of the Location that HandleFAS and HandleAuth answer
\* with is printable ASCII, whatever the payload and the form held.
C30_EchoedPrintable ==
    ret.done =>
        \A i \in 1..Len(ret.out.location) : IsPrintable(ret.out.location[i])

\* C31: no child has two device entries with the same MAC, and a login
\* from a MAC the child already has adds no device.
C31_DeviceMACsUnique ==
    [][/\ \A id \in ChildIds :
            \A i, j \in 1..Len(children'[id].devices) :
                children'[id].devices[i] = children'[id].devices[j] => i = j
       /\ \A id \in ChildIds, mac \in MACs :
            (LoginBegin(id, mac) /\ HasDevice(children[id], mac))
                => children'[id].devices = children[id].devices]_vars

\* C32: every child's daily_quota_min and used_today_min are >= 0.
C32_QuotaAndUsedNonNegative ==
    \A id \in ChildIds :
        children[id].inStore => children[id].quota >= 0 /\ children[id].used >= 0

\* C33: in every login with a MAC, the login's Deauth(mac) is made and has
\* returned before its Auth(mac, ...) is made, whether or not the Deauth
\* returned an error: a login makes an Auth call only from the statement
\* after its Deauth, reaches that statement only by the Deauth call, goes
\* on to it whatever the Deauth returned, and leaves it only by the Auth.
C33_DeauthBeforeAuth ==
    [][/\ \A m \in MACs :
            (nds'[m] # nds[m] /\ nds'[m].kind = "auth")
                => req.pc = "auth" /\ req.mac = m
       /\ (req.pc # "auth" /\ req'.pc = "auth")
            => /\ nds'[req'.mac].kind = "deauth"
               /\ nds'[req'.mac].by = IF req'.who = "admin" THEN "admin"
                                      ELSE "child"
       /\ (req.pc = "deauth" /\ req.mac # NoMAC /\ req'.pc # "deauth")
            => req'.pc = "auth" /\ req'.mac = req.mac
       /\ (req.pc = "auth" /\ req'.pc # "auth")
            => /\ nds'[req.mac].kind = "auth"
               /\ nds'[req.mac].by = IF req.who = "admin" THEN "admin"
                                     ELSE "child"]_vars

\* a child's login whose Deauth has failed stands before its Auth call
C33_Witness ==
    /\ req.pc = "auth"
    /\ req.who # "admin"
    /\ nds[req.mac].kind = "deauth"
    /\ ~nds[req.mac].ok

\* the four decodings of HandleFAS in the order of the specification
Attempts(fasParam) ==
    LET p == ReplaceAll(fasParam, <<32>>, <<43>>)
        m == Len(p) % 4
    IN  <<DecodeString(StdAlphabet, TRUE, p),
          DecodeString(StdAlphabet, TRUE,
                       IF m = 0 THEN p ELSE p \o [i \in 1..(4 - m) |-> PadChar]),
          DecodeString(URLAlphabet, TRUE, p),
          DecodeString(StdAlphabet, FALSE, p)>>

\* the result of the first decoding that succeeds, err when none does
FirstSuccess(a) ==
    IF \A i \in 1..4 : a[i].err THEN [err |-> TRUE, bytes |-> <<>>]
    ELSE a[CHOOSE i \in 1..4 : ~a[i].err /\ \A j \in 1..(i - 1) : a[j].err]

\* C34: HandleFAS answers every request with a redirect to the portal: to
\* "/portal" without parameters when the fas parameter is absent or none
\* of the four decodings takes it, and otherwise with the parameters
\* parsed from the bytes of the first decoding that succeeds, in the
\* order standard (after space-to-plus), padded, URL-safe, unpadded.
C34_AlwaysRedirects ==
    (ret.done /\ arg.op \in {"fas", "raw"}) =>
        LET q == FASParam(arg)
            f == FirstSuccess(Attempts(q))
        IN  /\ ret.out.status = 302
            /\ IF Len(q) = 0 \/ f.err
               THEN /\ ret.out.location = Bytes("/portal")
                    /\ ret.out.fas = NoFAS
               ELSE /\ MatchAt(ret.out.location, 1,
                               Bytes("http://") \o GatewayIP \o <<58>> \o Port
                                   \o Bytes("/portal?"))
                    /\ ret.out = PortalRedirect(Sanitized(LookedUp(
                            parseFASData(Clean(f.bytes)), RemoteIP,
                            Bytes(arg.arp))))

\* a parameter none of the four decodings takes has been answered
C34_Witness ==
    /\ ret.done
    /\ arg.op = "raw"
    /\ Len(arg.fas) # 0
    /\ FirstSuccess(Attempts(arg.fas)).err
    /\ ret.out.location = Bytes("/portal")

\* six octets of two digits, with colons between them
Octets(hex) ==
    Join([k \in 1..6 |-> SubSeq(hex, 2 * k - 1, 2 * k)], <<58>>)

\* C35: normalizeMAC gives every written form of a MAC address of 12
\* hexadecimal digits (':', '-', '.' or nothing between the digits, letters
\* in either case) the same six lower-case octets with colons between
\* them, and normalizeMAC of its result is that result, for every input.
C35_CanonicalMAC ==
    ret.done =>
        /\ normalizeMAC(ret.out) = ret.out
        /\ arg.op = "mac" => ret.out = Octets(Bytes(arg.hex))

\* an address written in upper case with dots between groups of four
\* digits has been normalized
C35_Witness ==
    /\ ret.done
    /\ arg.op = "mac"
    /\ arg.sep = <<46>>
    /\ arg.group = 4
    /\ arg.upper = {0, 1}
    /\ arg.hex = "aabbccddeeff"
    /\ ret.out = Bytes("aa:bb:cc:dd:ee:ff")

\* C36: a session that is inactive stays inactive, rows are never taken
\* out or given to another child or device, and a step that makes a
\* session active appends it as a new row and leaves the others as they are.
C36_ActiveOnlyFalls ==
    [][/\ Len(sessions') >= Len(sessions)
       /\ \A i \in 1..Len(sessions) :
            /\ ~sessions[i].active => ~sessions'[i].active
            /\ sessions'[i].child = sessions[i].child
            /\ sessions'[i].mac = sessions[i].mac
            /\ sessions'[i].startedAt = sessions[i].startedAt
       /\ \A id \in ChildIds, mac \in MACs \cup {NoMAC} :
            LoginBegin(id, mac) =>
                /\ Len(sessions') = Len(sessions) + 1
                /\ sessions'[Len(sessions')].active
                /\ SubSeq(sessions', 1, Len(sessions)) = sessions]_vars

\* a child logs in again from the device of a session that is inactive:
\* the old row is inactive and the new one is active
C36_Witness ==
    /\ Len(sessions) = 2
    /\ sessions[1].mac = sessions[2].mac
    /\ sessions[1].mac # NoMAC
    /\ ~sessions[1].active
    /\ sessions[2].active

\* C37: when no login and no tick is in progress and no ndsctl call has
\* failed, the last ndsctl call for the MAC of every active session is an
\* auth.
C37_ActiveIsAuthorized ==
    (req.pc = "idle" /\ tickPc = "idle" /\ \A m \in MACs : nds[m].ok) =>
        \A i \in 1..Len(sessions) :
            (sessions[i].active /\ sessions[i].mac \in MACs)
                => nds[sessions[i].mac].kind = "auth"

\* the minutes ticks have added to child c for the sessions of device m
\* among the first n rows
RECURSIVE Charged(_, _, _)
Charged(c, m, n) ==
    IF n = 0 THEN 0
    ELSE Charged(c, m, n - 1)
            + (IF sessions[n].child = c /\ sessions[n].mac = m
               THEN accrued[n] ELSE 0)

\* C38: for every child and MAC, the minutes ticks have added to the
\* child's used_today_min for sessions of that MAC since the start are
\* at most the whole minutes of time that have passed since the start.
C38_ChargedOncePerDevice ==
    \A c \in ChildIds, m \in MACs :
        Charged(c, m, Len(sessions)) * SlotsPerMin <= now

\* C39: extend by n > 0 minutes adds n to the remaining minutes of the
\* session's child and leaves used_today_min and the sessions as they are;
\* extend by n <= 0 changes neither children nor sessions; and the daily
\* reset leaves the child with the daily_quota_min it was created with
\* (1 minute here, where only extend changes it).
C39_ExtensionEndsWithTheDay ==
    [][/\ \A n \in {-1, 0, 1} :
            Extend(1, n) =>
                LET c == sessions[1].child
                IN  /\ sessions' = sessions
                    /\ children'[c].used = children[c].used
                    /\ n <= 0 => children' = children
                    /\ n > 0 => RemainingMinutes(children'[c])
                                    = RemainingMinutes(children[c]) + n
       /\ \A id \in ChildIds :
            (children[id].inStore /\ children'[id].inStore
                /\ children'[id].lastReset # children[id].lastReset)
                    => children'[id].quota = 1]_vars

====
